---- MODULE Spec2Model ----
(***************************************************************************)
(* Model of the pandora appearance core:                                   *)
(*   - the pose constraint tree (AppearanceLimitTree, TreeNode, TreeLimit) *)
(*     of pandora-common/src/assets/properties.ts;                         *)
(*   - DoAppearanceAction and the action context of a shard Character;     *)
(*   - storage modules and the room inventory state (load, export,         *)
(*     setContents) of pandora-common/src/assets;                          *)
(*   - Character.save of the shard and the changes it writes, and the      *)
(*     connection, timeout timer and invalidation of a shard Character;    *)
(*   - the slots occupied by worn items (MergeAssetProperties);            *)
(*   - the rooms of the directory (pandora-server-directory/src/room):     *)
(*     characters, owners, admins, bans, checkAllowEnter, touch and the    *)
(*     times of the messages;                                              *)
(*   - the shard's connection to the Directory.                            *)
(***************************************************************************)
EXTENDS Integers, Sequences, FiniteSets, TLC

VARIABLES
    root,       \* AppearanceLimitTree.root: a TreeNode or NullNode
    merges,     \* number of merge() calls made on the tree so far
    last,       \* the last call made on the tree and what it returned
    charRoom,   \* shard Character.room of every character: a room or NoRoom
    roomChars,  \* the characters of every shard room
    appearance, \* Character.appearance of every character: items and pose
    lastAction, \* the last DoAppearanceAction call and what it returned
    steps,      \* number of steps taken on the characters so far
    inventory,  \* AssetFrameworkRoomState.items of the room inventory
    lastItem,   \* the last operation on the room inventory and its outcome
    itemSteps,  \* number of operations made on the room inventory so far
    saveState,  \* Character.state: NONE, MODIFIED or PENDING
    modified,   \* Character.modified: the keys changed and not yet saved
    charData,   \* Character.data and appearance: the value of every key
    database,   \* the character as the database holds it
    saving,     \* the save() calls waiting for the database: keys and data
    lastSave,   \* the last step made on the character's persistence
    saveSteps,  \* number of such steps so far
    worn,       \* the items a character wears: their asset properties, in order
    lastWear,   \* the last change tried on the worn items and its outcome
    wearSteps,  \* number of changes tried on the worn items so far
    space,      \* the appearance of every character of one space
    executing,  \* the DoAppearanceAction call that is running, or NoCall
    waiting,    \* the calls that have given up control between check and apply
    lastSpace,  \* the last action applied to the space
    begun,      \* number of actions begun on the space so far
    dirRooms,   \* the rooms of the directory: owners, config, characters, shard
    dirChars,   \* directory Character.room of every character: a room or NoRoom
    lastRoom,   \* the last call made on a directory room
    roomSteps,  \* number of calls made on the directory rooms so far
    connState,  \* SocketIODirectoryConnector._state
    socket,     \* the connector's socket: idle, connecting, open or closed
    registers,  \* the register() calls under way, by the await they are at
    lastConn,   \* the last call or event on the connector
    connSteps,  \* number of calls and events on the connector so far
    lastActivity,    \* directory Room.lastActivity
    lastMessageTime, \* directory Room.lastMessageTime
    pendingMessages, \* directory Room.pendingMessages: their directoryTime, in order
    lastClock,       \* the last touch() or sendMessage() call on the room
    clockSteps,      \* number of such calls so far
    invalid,           \* Character.invalid: NoReason or the reason of the invalidation
    connection,        \* Character.connection: a client connection or NoConnection
    timeout,           \* Character.timeout: TRUE while the timeout timer is pending
    directoryMessages, \* the reasons of the 'characterDisconnect' messages sent
    lastLife,          \* the last call or timer event on the character
    lifeSteps          \* number of such calls and events so far

treeVars == <<root, merges, last>>
actionVars == <<charRoom, roomChars, appearance, lastAction, steps>>
itemVars == <<inventory, lastItem, itemSteps>>
saveVars == <<saveState, modified, charData, database, saving, lastSave, saveSteps>>
wearVars == <<worn, lastWear, wearSteps>>
spaceVars == <<space, executing, waiting, lastSpace, begun>>
roomVars == <<dirRooms, dirChars, lastRoom, roomSteps>>
connVars == <<connState, socket, registers, lastConn, connSteps>>
clockVars == <<lastActivity, lastMessageTime, pendingMessages, lastClock, clockSteps>>
lifeVars == <<invalid, connection, timeout, directoryMessages, lastLife, lifeSteps>>
vars == <<treeVars, actionVars, itemVars, saveVars, wearVars, spaceVars, roomVars, connVars, clockVars, lifeVars>>

\* what the operations of one part of the model leave alone
outsideTree == <<actionVars, itemVars, saveVars, wearVars, spaceVars, roomVars, connVars, clockVars, lifeVars>>
outsideAction == <<treeVars, itemVars, saveVars, wearVars, spaceVars, roomVars, connVars, clockVars, lifeVars>>
outsideItems == <<treeVars, actionVars, saveVars, wearVars, spaceVars, roomVars, connVars, clockVars, lifeVars>>
outsideSave == <<treeVars, actionVars, itemVars, wearVars, spaceVars, roomVars, connVars, clockVars, lifeVars>>
outsideWear == <<treeVars, actionVars, itemVars, saveVars, spaceVars, roomVars, connVars, clockVars, lifeVars>>
outsideSpace == <<treeVars, actionVars, itemVars, saveVars, wearVars, roomVars, connVars, clockVars, lifeVars>>
outsideRoom == <<treeVars, actionVars, itemVars, saveVars, wearVars, spaceVars, connVars, clockVars, lifeVars>>
outsideConn == <<treeVars, actionVars, itemVars, saveVars, wearVars, spaceVars, roomVars, clockVars, lifeVars>>
outsideClock == <<treeVars, actionVars, itemVars, saveVars, wearVars, spaceVars, roomVars, connVars, lifeVars>>
outsideLife == <<treeVars, actionVars, itemVars, saveVars, wearVars, spaceVars, roomVars, connVars, clockVars>>
\* what a call that changes both the persistence and the life of a character leaves alone
outsideCharacter == <<treeVars, actionVars, itemVars, wearVars, spaceVars, roomVars, connVars, clockVars>>

----------------------------------------------------------------------------
(* Bounds *)

\* merge() calls made on one tree
MaxMerges == 2

\* steps (room changes and appearance actions) taken on the characters
MaxSteps == 3

\* `Infinity` of TreeLimit.force / TreeNode.force: larger than any distance
Infinity == 1000000

----------------------------------------------------------------------------
(* Small helpers *)

Max2(a, b) == IF a >= b THEN a ELSE b
Min2(a, b) == IF a <= b THEN a ELSE b
Abs(a) == IF a < 0 THEN -a ELSE a

\* number addition as the code's doubles do it: Infinity absorbs
Plus(a, b) == IF a >= Infinity \/ b >= Infinity THEN Infinity ELSE a + b

RECURSIVE SumOver(_, _)
SumOver(f, S) ==
    IF S = {} THEN 0
    ELSE LET k == CHOOSE k \in S : TRUE IN Plus(f[k], SumOver(f, S \ {k}))

----------------------------------------------------------------------------
(* Flat pose maps: Map<string, number>, a function from a set of keys *)

BoneNames == {"x", "y"}
BoneKey(b) == IF b = "x" THEN "bones.x" ELSE "bones.y"
KeyBone(k) == CHOOSE b \in BoneNames : BoneKey(b) = k
BoneKeys == {BoneKey(b) : b \in BoneNames}

EmptyMap == [k \in {} |-> 0]

\* immutable Map.set on a copy
MapSet(m, k, v) == [q \in DOMAIN m \cup {k} |-> IF q = k THEN v ELSE m[q]]

\* the two CharacterView values, as FromPose encodes them
FRONT == "front"
BACK == "back"

\* a structured pose: bones (a partial record; null entries are absent keys)
\* and an optional view; the arms are left out
NoView == "none"

FromPose(pose) ==
    LET bones == [k \in {BoneKey(b) : b \in DOMAIN pose.bones} |-> pose.bones[KeyBone(k)]]
    IN  IF pose.view = NoView THEN bones
        ELSE MapSet(bones, "view", IF pose.view = FRONT THEN 0 ELSE 1)

ToPose(data) ==
    [bones |-> [b \in {KeyBone(k) : k \in DOMAIN data \cap BoneKeys} |-> data[BoneKey(b)]],
     view  |-> IF "view" \in DOMAIN data /\ data["view"] \in {0, 1}
               THEN (IF data["view"] = 0 THEN FRONT ELSE BACK)
               ELSE FRONT]

----------------------------------------------------------------------------
(* IntervalSetIntersection: the union of the pairwise overlaps of two       *)
(* interval lists, in the order of the first list.                          *)

RECURSIVE OverlapsWith(_, _, _)
OverlapsWith(iv, b, j) ==
    IF j > Len(b) THEN <<>>
    ELSE LET lo == Max2(iv[1], b[j][1])
             hi == Min2(iv[2], b[j][2])
         IN  (IF lo <= hi THEN <<(<<lo, hi>>)>> ELSE <<>>) \o OverlapsWith(iv, b, j + 1)

RECURSIVE PairwiseOverlaps(_, _, _)
PairwiseOverlaps(a, b, i) ==
    IF i > Len(a) THEN <<>>
    ELSE OverlapsWith(a[i], b, 1) \o PairwiseOverlaps(a, b, i + 1)

IntervalSetIntersection(a, b) == PairwiseOverlaps(a, b, 1)

----------------------------------------------------------------------------
(* TreeLimit: a function from the constrained keys to interval lists *)

NullLimit == [null |-> TRUE]

InInterval(iv, value) == value >= iv[1] /\ value <= iv[2]

TreeLimitValidate(limit, data) ==
    \A key \in DOMAIN data :
        key \in DOMAIN limit =>
            \E i \in 1..Len(limit[key]) : InInterval(limit[key][i], data[key])

\* ForceValue without the comparison against the upper edge of an interval
RECURSIVE ForceValueMinOnly(_, _, _, _, _)
ForceValueMinOnly(ivs, i, value, minDiff, minDiffValue) ==
    IF i > Len(ivs) THEN <<minDiff, minDiffValue>>
    ELSE IF InInterval(ivs[i], value) THEN <<0, value>>
    ELSE LET diffMin == Abs(value - ivs[i][1])
             d1 == IF diffMin < minDiff THEN diffMin ELSE minDiff
             v1 == IF diffMin < minDiff THEN ivs[i][1] ELSE minDiffValue
         IN  ForceValueMinOnly(ivs, i + 1, value, d1, v1)

\* the loop over the intervals of one key: <<minDiff, minDiffValue>>
RECURSIVE ForceValue(_, _, _, _, _)
ForceValue(ivs, i, value, minDiff, minDiffValue) ==
    IF i > Len(ivs) THEN <<minDiff, minDiffValue>>
    ELSE IF InInterval(ivs[i], value) THEN <<0, value>>
    ELSE LET diffMin == Abs(value - ivs[i][1])
             d1 == IF diffMin < minDiff THEN diffMin ELSE minDiff
             v1 == IF diffMin < minDiff THEN ivs[i][1] ELSE minDiffValue
             diffMax == Abs(value - ivs[i][2])
             d2 == IF diffMax < d1 THEN diffMax ELSE d1
             v2 == IF diffMax < d1 THEN ivs[i][2] ELSE v1
         IN  ForceValue(ivs, i + 1, value, d2, v2)

TreeLimitForce(limit, data) ==
    LET res == [key \in DOMAIN data |->
                    IF key \in DOMAIN limit
                    THEN ForceValue(limit[key], 1, data[key], Infinity, data[key])
                    ELSE <<0, data[key]>>]
    IN  [diff |-> SumOver([key \in DOMAIN data |-> res[key][1]], DOMAIN data),
         data |-> [key \in DOMAIN data |-> res[key][2]]]

TreeLimitHasNoLimits(limit) == DOMAIN limit = {}

\* keys present in both limits, with the intersection of their values
TreeLimitIntersection(limit, other) ==
    LET common == DOMAIN limit \cap DOMAIN other
        newLimit == [key \in common |-> IntervalSetIntersection(limit[key], other[key])]
    IN  IF \E key \in common : Len(newLimit[key]) = 0 THEN NullLimit ELSE newLimit

\* adds all keys of other that limit does not have
TreeLimitExtend(limit, other) ==
    [key \in DOMAIN limit \cup DOMAIN other |->
        IF key \in DOMAIN limit THEN limit[key] ELSE other[key]]

\* removes all keys that store the same values as in other
TreeLimitPrune(limit, other) ==
    [key \in {k \in DOMAIN limit : ~(k \in DOMAIN other /\ limit[k] = other[k])} |-> limit[key]]

----------------------------------------------------------------------------
(* TreeNode: a partial limit and, when children is not null, the list of    *)
(* alternative branches.                                                    *)

NullNode == [null |-> TRUE]

\* new TreeNode(limit): children = null
Leaf(limit) == [limit |-> limit, hasChildren |-> FALSE, children |-> <<>>]
\* new TreeNode(limit, children)
Branch(limit, children) == [limit |-> limit, hasChildren |-> TRUE, children |-> children]
\* new TreeNode(limit, node.children), children possibly null
WithChildrenOf(limit, node) ==
    [limit |-> limit, hasChildren |-> node.hasChildren, children |-> node.children]

NotNull(node) == node # NullNode

\* TreeNodeValidate asking every child to accept, not some child
RECURSIVE TreeNodeValidateEvery(_, _)
TreeNodeValidateEvery(node, data) ==
    IF ~TreeLimitValidate(node.limit, data) THEN FALSE
    ELSE IF ~node.hasChildren THEN TRUE
    ELSE \A i \in 1..Len(node.children) : TreeNodeValidateEvery(node.children[i], data)

RECURSIVE TreeNodeValidate(_, _)
TreeNodeValidate(node, data) ==
    IF ~TreeLimitValidate(node.limit, data) THEN FALSE
    ELSE IF ~node.hasChildren THEN TRUE
    ELSE \E i \in 1..Len(node.children) : TreeNodeValidate(node.children[i], data)

\* the loop of TreeNode.force over the children, from child i on; minData = null
\* is hasMin = FALSE
RECURSIVE TreeNodeForce(_, _)
RECURSIVE ForceChildren(_, _, _, _, _, _)
\* ForceChildren keeping the last branch of minimal distance (<= for <)
RECURSIVE ForceChildrenLastWins(_, _, _, _, _, _)
ForceChildrenLastWins(children, i, newData, minDiff, hasMin, minData) ==
    IF i > Len(children) THEN [diff |-> minDiff, has |-> hasMin, data |-> minData]
    ELSE LET child == TreeNodeForce(children[i], newData)
             better == child.diff <= minDiff
             d == IF better THEN child.diff ELSE minDiff
             h == better \/ hasMin
             m == IF better THEN child.data ELSE minData
         IN  IF d = 0 THEN [diff |-> d, has |-> h, data |-> m]
             ELSE ForceChildrenLastWins(children, i + 1, newData, d, h, m)

ForceChildren(children, i, newData, minDiff, hasMin, minData) ==
    IF i > Len(children) THEN [diff |-> minDiff, has |-> hasMin, data |-> minData]
    ELSE LET child == TreeNodeForce(children[i], newData)
             better == child.diff < minDiff
             d == IF better THEN child.diff ELSE minDiff
             h == better \/ hasMin
             m == IF better THEN child.data ELSE minData
         IN  IF d = 0 THEN [diff |-> d, has |-> h, data |-> m]
             ELSE ForceChildren(children, i + 1, newData, d, h, m)

TreeNodeForce(node, data) ==
    LET own == TreeLimitForce(node.limit, data)
    IN  IF ~node.hasChildren THEN own
        ELSE LET best == ForceChildren(node.children, 1, own.data, Infinity, FALSE, own.data)
             IN  IF ~best.has THEN own
                 ELSE [diff |-> Plus(own.diff, best.diff), data |-> best.data]

TreeNodeHasNoLimits(node) == TreeLimitHasNoLimits(node.limit) /\ ~node.hasChildren

\* TreeNode.fromResult
FromResult(limit, children) ==
    IF Len(children) = 0 THEN NullNode
    ELSE IF Len(children) = 1
         THEN WithChildrenOf(TreeLimitExtend(children[1].limit, limit), children[1])
         ELSE Branch(limit, children)

\* list.map(f).filter(non-null) and list.flatMap, over sequences
RECURSIVE Concat(_, _)
Concat(seqs, i) == IF i > Len(seqs) THEN <<>> ELSE seqs[i] \o Concat(seqs, i + 1)

RECURSIVE IntersectionWithLimit(_, _, _)
IntersectionWithLimit(node, limit, prune) ==
    LET intersection == TreeLimitIntersection(node.limit, limit)
    IN  IF intersection = NullLimit THEN NullNode
        ELSE LET newLimit ==
                     IF prune
                     THEN TreeLimitPrune(TreeLimitExtend(intersection, node.limit), limit)
                     ELSE TreeLimitExtend(TreeLimitExtend(intersection, node.limit), limit)
             IN  IF ~node.hasChildren THEN Leaf(newLimit)
                 ELSE LET childLimiter == TreeLimitPrune(newLimit, node.limit)
                          mapped == [i \in 1..Len(node.children) |->
                                        IntersectionWithLimit(node.children[i], childLimiter, TRUE)]
                      IN  FromResult(newLimit, SelectSeq(mapped, NotNull))

RECURSIVE TreeNodeIntersection(_, _)
TreeNodeIntersection(node, other) ==
    LET next == IntersectionWithLimit(node, other.limit, FALSE)
    IN  IF next = NullNode THEN NullNode
        ELSE IF ~other.hasChildren THEN next
        ELSE LET nodes ==
                     IF ~next.hasChildren
                     THEN SelectSeq([j \in 1..Len(other.children) |->
                                        IntersectionWithLimit(other.children[j], next.limit, TRUE)],
                                    NotNull)
                     ELSE Concat([j \in 1..Len(other.children) |->
                                    SelectSeq([i \in 1..Len(next.children) |->
                                                  TreeNodeIntersection(next.children[i], other.children[j])],
                                              NotNull)], 1)
             IN  FromResult(next.limit, nodes)

----------------------------------------------------------------------------
(* Pose-limit definitions (AssetDefinitionPoseLimits) and CreateTreeNode *)

NoLimits == [null |-> TRUE]

\* a bone limit is a number or a list of intervals
Num(v) == [isNumber |-> TRUE, value |-> v, intervals |-> <<>>]
Ivs(list) == [isNumber |-> FALSE, value |-> 0, intervals |-> list]

NoBones == [b \in {} |-> Num(0)]
OnlyX(l) == [b \in {"x"} |-> l]
OnlyY(l) == [b \in {"y"} |-> l]
BothXY(lx, ly) == [b \in {"x", "y"} |-> IF b = "x" THEN lx ELSE ly]

\* a definition without options (options == null)
Flat(bones, view) == [bones |-> bones, view |-> view, hasOptions |-> FALSE, options |-> <<>>]
\* a definition with the given list of options
WithOptions(bones, view, options) ==
    [bones |-> bones, view |-> view, hasOptions |-> TRUE, options |-> options]

ViewNumber(view) == IF view = FRONT THEN 0 ELSE 1

FromLimit(def) ==
    LET bones == [k \in {BoneKey(b) : b \in DOMAIN def.bones} |->
                    LET value == def.bones[KeyBone(k)]
                    IN  IF value.isNumber THEN <<(<<value.value, value.value>>)>>
                        ELSE value.intervals]
    IN  IF def.view = NoView THEN bones
        ELSE MapSet(bones, "view", <<(<<ViewNumber(def.view), ViewNumber(def.view)>>)>>)

RECURSIVE CreateTreeNode(_)
CreateTreeNode(limits) ==
    IF ~limits.hasOptions THEN Leaf(FromLimit(limits))
    ELSE Branch(FromLimit(limits),
                [i \in 1..Len(limits.options) |-> CreateTreeNode(limits.options[i])])

----------------------------------------------------------------------------
(* AppearanceLimitTree *)

\* private root = new TreeNode()
NewTree == Leaf(EmptyMap)

TreeValid(r) == r # NullNode

TreeHasNoLimits(r) == r # NullNode /\ TreeNodeHasNoLimits(r)

TreeValidate(r, pose) == r # NullNode /\ TreeNodeValidate(r, FromPose(pose))

TreeForce(r, pose) ==
    IF r = NullNode THEN [pose |-> pose, changed |-> FALSE]
    ELSE LET res == TreeNodeForce(r, FromPose(pose))
         IN  IF res.diff = 0 THEN [pose |-> pose, changed |-> FALSE]
             ELSE [pose |-> ToPose(res.data), changed |-> TRUE]

\* TreeMerge testing `limits == null` before `root == null`
TreeMergeNullFirst(r, limits) ==
    IF limits = NoLimits THEN [root |-> r, ret |-> TRUE]
    ELSE IF r = NullNode THEN [root |-> r, ret |-> FALSE]
    ELSE LET res == TreeNodeIntersection(r, CreateTreeNode(limits))
         IN  [root |-> res, ret |-> res # NullNode]

\* merge(limits): the new root and the value returned
TreeMerge(r, limits) ==
    IF r = NullNode THEN [root |-> r, ret |-> FALSE]
    ELSE IF limits = NoLimits THEN [root |-> r, ret |-> TRUE]
    ELSE LET res == TreeNodeIntersection(r, CreateTreeNode(limits))
         IN  [root |-> res, ret |-> res # NullNode]

----------------------------------------------------------------------------
(* The inputs: pose-limit definitions of assets, and poses *)

IvA == <<(<<-10, 10>>)>>
IvB == <<(<<5, 20>>)>>
IvC == <<(<<-10, 0>>), (<<20, 40>>)>>
IvD == <<(<<20, 40>>)>>

\* the definitions that constrain the bone x alone, without options
FlatXDefs == { Flat(OnlyX(Ivs(iv)), NoView) : iv \in {IvA, IvB, IvC, IvD} }

LimitDefs ==
    FlatXDefs \cup
    { Flat(OnlyY(Num(4)), BACK),
      WithOptions(OnlyX(Ivs(IvA)), NoView,
                  <<Flat(OnlyY(Num(0)), NoView), Flat(OnlyY(Num(4)), NoView)>>),
      WithOptions(NoBones, NoView, <<Flat(OnlyX(Ivs(IvD)), NoView)>>),
      WithOptions(NoBones, NoView, <<Flat(BothXY(Ivs(IvD), Num(0)), NoView)>>),
      WithOptions(NoBones, NoView,
                  <<Flat(OnlyX(Ivs(IvB)), FRONT), Flat(OnlyX(Ivs(IvC)), NoView)>>),
      WithOptions(NoBones, NoView,
                  <<WithOptions(OnlyY(Num(0)), NoView,
                                <<Flat(OnlyX(Ivs(IvB)), NoView), Flat(OnlyX(Ivs(IvD)), NoView)>>),
                    Flat(OnlyY(Num(4)), NoView)>>),
      WithOptions(NoBones, NoView, <<>>) }

XValues == {0, 7, 15, 30}
YValues == {0, 2, 4}

BonePoses ==
    UNION { [S -> XValues \cup YValues] : S \in SUBSET BoneNames }

Poses ==
    { [bones |-> b, view |-> v] :
        b \in { f \in BonePoses : \A n \in DOMAIN f :
                    (n = "x" => f[n] \in XValues) /\ (n = "y" => f[n] \in YValues) },
        v \in {NoView, FRONT, BACK} }

\* force() takes a whole AppearancePose: the view is set
FullPoses == { p \in Poses : p.view # NoView }

----------------------------------------------------------------------------
(* Appearance of a character: the items worn, in order, and the pose.       *)
(* allowCreateItem refuses an item id that is already present;              *)
(* allowRemoveItem asks for the item to be present.                         *)

NewAppearance == [items |-> <<>>, pose |-> [b \in {"x"} |-> 0]]

HasItem(app, itemId) == \E i \in 1..Len(app.items) : app.items[i].id = itemId

AllowCreateItem(app, itemId, asset) == ~HasItem(app, itemId)

CreateItem(app, itemId, asset) ==
    [app EXCEPT !.items = Append(@, [id |-> itemId, asset |-> asset])]

AllowRemoveItem(app, itemId) == HasItem(app, itemId)

ItemIsNot(itemId, item) == item.id # itemId

RemoveItem(app, itemId) ==
    [app EXCEPT !.items = SelectSeq(@, LAMBDA item : ItemIsNot(itemId, item))]

\* importPose(pose, type): the bones given replace the values held
ImportPose(app, pose, type) ==
    [app EXCEPT !.pose = [b \in DOMAIN @ \cup DOMAIN pose |->
                              IF b \in DOMAIN pose THEN pose[b] ELSE @[b]]]

----------------------------------------------------------------------------
(* AssetManager.getAssetById: the catalog is the set of known asset ids *)

Assets == {"a/shirt"}
AssetIds == Assets \cup {"a/unknown"}

GetAssetById(assets, id) == IF id \in assets THEN id ELSE "undefined"

----------------------------------------------------------------------------
(* DoAppearanceAction: the value returned and the appearances of the        *)
(* context after the call.                                                  *)

Rejected(context) == [result |-> FALSE, characters |-> context.characters]
Accepted(context, dryRun, target, newAppearance) ==
    [result |-> TRUE,
     characters |-> IF dryRun THEN context.characters
                    ELSE [context.characters EXCEPT ![target] = newAppearance]]

\* DoAppearanceAction whose dry run does not ask allowCreateItem
DoAppearanceActionDryRunUnchecked(action, context, assets, dryRun) ==
    IF action.target \notin DOMAIN context.characters THEN Rejected(context)
    ELSE LET app == context.characters[action.target]
         IN  CASE action.type = "create" ->
                    LET asset == GetAssetById(assets, action.asset)
                    IN  IF asset = "undefined" THEN Rejected(context)
                        ELSE IF dryRun THEN Accepted(context, dryRun, action.target, app)
                        ELSE IF ~AllowCreateItem(app, action.itemId, asset) THEN Rejected(context)
                        ELSE Accepted(context, dryRun, action.target,
                                      CreateItem(app, action.itemId, asset))
               [] action.type = "delete" ->
                    IF ~AllowRemoveItem(app, action.itemId) THEN Rejected(context)
                    ELSE Accepted(context, dryRun, action.target,
                                  RemoveItem(app, action.itemId))
               [] action.type \in {"body", "pose"} ->
                    IF context.player # action.target THEN Rejected(context)
                    ELSE Accepted(context, dryRun, action.target,
                                  ImportPose(app, action.pose, action.type))

\* DoAppearanceAction importing the pose before it compares player and target
DoAppearanceActionPoseFirst(action, context, assets, dryRun) ==
    IF action.target \notin DOMAIN context.characters THEN Rejected(context)
    ELSE LET app == context.characters[action.target]
         IN  CASE action.type = "create" ->
                    LET asset == GetAssetById(assets, action.asset)
                    IN  IF asset = "undefined" THEN Rejected(context)
                        ELSE IF ~AllowCreateItem(app, action.itemId, asset) THEN Rejected(context)
                        ELSE Accepted(context, dryRun, action.target,
                                      CreateItem(app, action.itemId, asset))
               [] action.type = "delete" ->
                    IF ~AllowRemoveItem(app, action.itemId) THEN Rejected(context)
                    ELSE Accepted(context, dryRun, action.target,
                                  RemoveItem(app, action.itemId))
               [] action.type \in {"body", "pose"} ->
                    LET posed == Accepted(context, dryRun, action.target,
                                          ImportPose(app, action.pose, action.type))
                    IN  IF context.player # action.target
                        THEN [result |-> FALSE, characters |-> posed.characters]
                        ELSE posed

DoAppearanceAction(action, context, assets, dryRun) ==
    IF action.target \notin DOMAIN context.characters THEN Rejected(context)
    ELSE LET app == context.characters[action.target]
         IN  CASE action.type = "create" ->
                    LET asset == GetAssetById(assets, action.asset)
                    IN  IF asset = "undefined" THEN Rejected(context)
                        ELSE IF ~AllowCreateItem(app, action.itemId, asset) THEN Rejected(context)
                        ELSE Accepted(context, dryRun, action.target,
                                      CreateItem(app, action.itemId, asset))
               [] action.type = "delete" ->
                    IF ~AllowRemoveItem(app, action.itemId) THEN Rejected(context)
                    ELSE Accepted(context, dryRun, action.target,
                                  RemoveItem(app, action.itemId))
               [] action.type \in {"body", "pose"} ->
                    IF context.player # action.target THEN Rejected(context)
                    ELSE Accepted(context, dryRun, action.target,
                                  ImportPose(app, action.pose, action.type))

----------------------------------------------------------------------------
(* Shard characters and rooms *)

Chars == {"c1", "c2", "c3"}
UnknownChar == "c9"
Rooms == {"r1", "r2"}
NoRoom == "null"

ItemIds == {"i/1"}
PoseInputs == { [b \in {"x"} |-> 1] }

\* Room.getAllCharacters
GetAllCharacters(room) == roomChars[room]

\* getAppearanceActionContext collecting the characters of every room
GetAppearanceActionContextAllRooms(char) ==
    LET inRoom == IF charRoom[char] # NoRoom
                  THEN UNION { GetAllCharacters(r) : r \in Rooms } ELSE {}
    IN  [player |-> char,
         characters |-> [c \in inRoom \cup {char} |-> appearance[c]]]

\* Character.getAppearanceActionContext
GetAppearanceActionContext(char) ==
    LET inRoom == IF charRoom[char] # NoRoom THEN GetAllCharacters(charRoom[char]) ELSE {}
    IN  [player |-> char,
         characters |-> [c \in inRoom \cup {char} |-> appearance[c]]]

AppearanceActions ==
    { [type |-> "create", target |-> t, itemId |-> i, asset |-> a] :
        t \in Chars \cup {UnknownChar}, i \in ItemIds, a \in AssetIds }
    \cup { [type |-> "delete", target |-> t, itemId |-> i] :
        t \in Chars \cup {UnknownChar}, i \in ItemIds }
    \cup { [type |-> ty, target |-> t, pose |-> p] :
        ty \in {"pose", "body"}, t \in Chars \cup {UnknownChar}, p \in PoseInputs }

InitCharacters ==
    /\ charRoom = [c \in Chars |-> NoRoom]
    /\ roomChars = [r \in Rooms |-> {}]
    /\ appearance = [c \in Chars |-> NewAppearance]
    /\ lastAction = [op |-> "none"]
    /\ steps = 0

\* Character.update -> linkRoom(id): leave the old room, enter the new one
LinkRoom(char, room) ==
    /\ steps < MaxSteps
    /\ charRoom[char] # room
    /\ roomChars' = [r \in Rooms |->
                        IF r = room THEN roomChars[r] \cup {char}
                        ELSE roomChars[r] \ {char}]
    /\ charRoom' = [charRoom EXCEPT ![char] = room]
    /\ steps' = steps + 1
    /\ UNCHANGED <<appearance, lastAction>>
    /\ UNCHANGED outsideAction

\* a character's client asks for an action: the shard (or, as a dry run, the
\* wardrobe) runs DoAppearanceAction on the character's context
AppearanceAction(player, action, dryRun) ==
    /\ steps < MaxSteps
    /\ LET context == GetAppearanceActionContext(player)
           res == DoAppearanceAction(action, context, Assets, dryRun)
       IN  /\ appearance' = [c \in Chars |->
                                IF c \in DOMAIN res.characters THEN res.characters[c]
                                ELSE appearance[c]]
           /\ lastAction' = [op |-> "action", action |-> action, dryRun |-> dryRun,
                             context |-> context, before |-> appearance,
                             rooms |-> charRoom,
                             result |-> res.result]
    /\ steps' = steps + 1
    /\ UNCHANGED <<charRoom, roomChars>>
    /\ UNCHANGED outsideAction

----------------------------------------------------------------------------
(* Items, storage modules and the room inventory state *)

\* operations made on one room inventory
MaxItemSteps == 4

\* AssetSizeMapping of assets/definitions
AssetSizeMapping ==
    [small |-> 1, medium |-> 2, large |-> 3, huge |-> 4, bodypart |-> 99]

\* AssetSizeMapping[size] ?? otherwise
SizeOr(size, otherwise) ==
    IF size \in DOMAIN AssetSizeMapping THEN AssetSizeMapping[size] ELSE otherwise

\* an asset without a storage module
NoStorage == [none |-> TRUE]

\* the assets of the asset manager: id, definition.size and the configuration
\* of the asset's storage module
Bag == [id |-> "a/bag", size |-> "medium",
        storage |-> [maxCount |-> 2, maxAcceptedSize |-> "medium"]]
Coin == [id |-> "a/coin", size |-> "small", storage |-> NoStorage]
Rock == [id |-> "a/rock", size |-> "large", storage |-> NoStorage]
ItemAssets == {Bag, Coin, Rock}

UndefinedAsset == [undefined |-> TRUE]

\* AssetManager.getAssetById
ItemAssetById(id) ==
    IF \E a \in ItemAssets : a.id = id
    THEN CHOOSE a \in ItemAssets : a.id = id
    ELSE UndefinedAsset

\* AppearanceValidationResult
Success == [success |-> TRUE]
Problem(problem) == [success |-> FALSE, problem |-> problem]
TooManyItems(limit) == [success |-> FALSE, problem |-> "tooManyItems", limit |-> limit]
ContentNotAllowed(asset) ==
    [success |-> FALSE, problem |-> "contentNotAllowed", asset |-> asset]

\* results.reduce(AppearanceValidationCombineResults, { success: true })
CombineResults(results) ==
    LET failed == { i \in 1..Len(results) : ~results[i].success }
    IN  IF failed = {} THEN Success
        ELSE results[CHOOSE i \in failed : \A j \in failed : i <= j]

\* "Id must be unique"
HasDuplicateId(items) ==
    \E i, j \in 1..Len(items) : i < j /\ items[i].id = items[j].id

RECURSIVE ItemValidate(_), ValidateStorage(_, _), ValidateStorageFull(_, _)

\* Item.validate: the combined result of the item's modules
ItemValidate(item) ==
    IF item.asset.storage = NoStorage THEN Success
    ELSE ValidateStorage(item.contents, item.asset.storage)

\* ValidateStorage refusing a module that holds maxCount items
ValidateStorageFull(contents, config) ==
    IF HasDuplicateId(contents) THEN Problem("invalid")
    ELSE IF Len(contents) >= config.maxCount THEN TooManyItems(config.maxCount)
    ELSE LET limitSize == SizeOr(config.maxAcceptedSize, 0)
             problematic == { i \in 1..Len(contents) :
                                SizeOr(contents[i].asset.size, 99) > limitSize }
         IN  IF problematic # {}
             THEN ContentNotAllowed(
                    contents[CHOOSE i \in problematic :
                                \A j \in problematic : i <= j].asset.id)
             ELSE CombineResults([i \in 1..Len(contents) |-> ItemValidate(contents[i])])

ValidateStorage(contents, config) ==
    IF HasDuplicateId(contents) THEN Problem("invalid")
    ELSE IF Len(contents) > config.maxCount THEN TooManyItems(config.maxCount)
    ELSE LET limitSize == SizeOr(config.maxAcceptedSize, 0)
             problematic == { i \in 1..Len(contents) :
                                SizeOr(contents[i].asset.size, 99) > limitSize }
         IN  IF problematic # {}
             THEN ContentNotAllowed(
                    contents[CHOOSE i \in problematic :
                                \A j \in problematic : i <= j].asset.id)
             ELSE CombineResults([i \in 1..Len(contents) |-> ItemValidate(contents[i])])

RECURSIVE ItemExportToBundle(_), ExportData(_)

\* ItemModuleStorage.exportData
ExportData(contents) ==
    [i \in 1..Len(contents) |-> ItemExportToBundle(contents[i])]

\* Item.exportToBundle: the asset is exported as its id, the storage module
\* as the bundles of its contents
ItemExportToBundle(item) ==
    [id |-> item.id, asset |-> item.asset.id,
     contents |-> IF item.asset.storage = NoStorage THEN <<>>
                  ELSE ExportData(item.contents)]

RECURSIVE NewItem(_, _, _, _), ItemModuleStorage(_, _, _),
          StorageLoad(_, _, _, _, _), StorageLoadUnderCount(_, _, _, _, _)

\* new Item(id, asset, bundle, context): loads the modules the asset defines
NewItem(id, asset, bundle, doLoadTimeCleanup) ==
    [id |-> id, asset |-> asset,
     contents |-> IF asset.storage = NoStorage THEN <<>>
                  ELSE ItemModuleStorage(asset.storage, bundle.contents,
                                         doLoadTimeCleanup)]

\* the constructor's loop skipping the item that would fill the module
StorageLoadUnderCount(config, bundles, i, content, doLoadTimeCleanup) ==
    IF i > Len(bundles) THEN content
    ELSE LET itemBundle == bundles[i]
             asset == ItemAssetById(itemBundle.asset)
         IN  IF asset = UndefinedAsset
             THEN StorageLoad(config, bundles, i + 1, content, doLoadTimeCleanup)
             ELSE LET item == NewItem(itemBundle.id, asset, itemBundle,
                                      doLoadTimeCleanup)
                      skip == /\ doLoadTimeCleanup
                              /\ \/ Len(content) + 1 >= config.maxCount
                                 \/ SizeOr(asset.size, 99)
                                        > SizeOr(config.maxAcceptedSize, 0)
                                 \/ ~ItemValidate(item).success
                  IN  StorageLoad(config, bundles, i + 1,
                                  IF skip THEN content ELSE Append(content, item),
                                  doLoadTimeCleanup)

\* the loop of the ItemModuleStorage constructor, from bundle i on
StorageLoad(config, bundles, i, content, doLoadTimeCleanup) ==
    IF i > Len(bundles) THEN content
    ELSE LET itemBundle == bundles[i]
             asset == ItemAssetById(itemBundle.asset)
         IN  IF asset = UndefinedAsset
             THEN StorageLoad(config, bundles, i + 1, content, doLoadTimeCleanup)
             ELSE LET item == NewItem(itemBundle.id, asset, itemBundle,
                                      doLoadTimeCleanup)
                      skip == /\ doLoadTimeCleanup
                              /\ \/ Len(content) >= config.maxCount
                                 \/ SizeOr(asset.size, 99)
                                        > SizeOr(config.maxAcceptedSize, 0)
                                 \/ ~ItemValidate(item).success
                  IN  StorageLoad(config, bundles, i + 1,
                                  IF skip THEN content ELSE Append(content, item),
                                  doLoadTimeCleanup)

\* new ItemModuleStorage(config, data, context): the module's contents
ItemModuleStorage(config, contents, doLoadTimeCleanup) ==
    StorageLoad(config, contents, 1, <<>>, doLoadTimeCleanup)

\* ItemModuleStorage.setContents
SetContents(config, items) ==
    ItemModuleStorage(config, ExportData(items), FALSE)

\* ValidateRoomInventoryItems: unique ids, every item valid
ValidateRoomInventoryItems(items) ==
    IF HasDuplicateId(items) THEN Problem("invalid")
    ELSE CombineResults([i \in 1..Len(items) |-> ItemValidate(items[i])])

\* AssetFrameworkRoomState.isValid
IsValid(items) == ValidateRoomInventoryItems(items).success

RECURSIVE RoomInventoryLoadAndValidate(_, _, _)
\* RoomInventoryLoadAndValidate: adds the items one by one, keeping an item
\* only if the items kept so far stay valid with it
RoomInventoryLoadAndValidate(loadedItems, i, resultItems) ==
    IF i > Len(loadedItems) THEN resultItems
    ELSE LET tryItem == Append(resultItems, loadedItems[i])
         IN  RoomInventoryLoadAndValidate(loadedItems, i + 1,
                IF IsValid(tryItem) THEN tryItem ELSE resultItems)

\* AssetFrameworkRoomState.exportToBundle
ExportToBundle(items) == [items |-> ExportData(items)]

RECURSIVE LoadItems(_, _, _), LoadItemsUntilUnknown(_, _, _)

\* the first loop of loadFromBundle ending at the first unknown asset
LoadItemsUntilUnknown(bundles, i, loadedItems) ==
    IF i > Len(bundles) THEN loadedItems
    ELSE LET itemBundle == bundles[i]
             asset == ItemAssetById(itemBundle.asset)
         IN  IF asset = UndefinedAsset
             THEN loadedItems
             ELSE LoadItems(bundles, i + 1,
                    Append(loadedItems,
                           NewItem(itemBundle.id, asset, itemBundle, TRUE)))

\* the first loop of loadFromBundle: createItem for every known asset
LoadItems(bundles, i, loadedItems) ==
    IF i > Len(bundles) THEN loadedItems
    ELSE LET itemBundle == bundles[i]
             asset == ItemAssetById(itemBundle.asset)
         IN  IF asset = UndefinedAsset
             THEN LoadItems(bundles, i + 1, loadedItems)
             ELSE LoadItems(bundles, i + 1,
                    Append(loadedItems,
                           NewItem(itemBundle.id, asset, itemBundle, TRUE)))

\* AssetFrameworkRoomState.loadFromBundle: the items of the state returned and
\* whether the final assertion on it passes
LoadFromBundle(bundle) ==
    LET newItems == RoomInventoryLoadAndValidate(LoadItems(bundle.items, 1, <<>>),
                                                 1, <<>>)
    IN  [items |-> newItems, asserted |-> IsValid(newItems)]

\* the inputs: item ids, asset ids and bundles
StoredIds == {"i/1", "i/2", "i/3"}
StoredAssetIds == {"a/bag", "a/coin", "a/rock"}
UnknownAsset == "a/gone"

Bundle(id, asset, contents) == [id |-> id, asset |-> asset, contents |-> contents]
BCoin(id) == Bundle(id, "a/coin", <<>>)
BRock(id) == Bundle(id, "a/rock", <<>>)
BGone(id) == Bundle(id, UnknownAsset, <<>>)
BBag(id, contents) == Bundle(id, "a/bag", contents)

RoomBundles ==
    { [items |-> <<BGone("i/1"), BCoin("i/3"), BCoin("i/2")>>],
      [items |-> <<BCoin("i/1"), BRock("i/1"), BRock("i/2")>>],
      [items |-> <<BBag("i/1", <<BCoin("i/3"), BGone("i/4"), BCoin("i/2"),
                                 BCoin("i/5")>>)>>],
      [items |-> <<BBag("i/1", <<BRock("i/2"), BCoin("i/3"), BCoin("i/2")>>)>>],
      [items |-> <<BGone("i/3"),
                   BBag("i/1", <<BBag("i/2", <<BCoin("i/3"), BCoin("i/3")>>),
                                 BBag("i/3", <<BCoin("i/2"), BRock("i/3"),
                                               BCoin("i/1"), BCoin("i/3")>>)>>),
                   BCoin("i/2")>>],
      [items |-> <<BBag("i/2", <<BCoin("i/1"), BCoin("i/1")>>),
                   Bundle("i/3", "a/coin", <<BCoin("i/1")>>)>>],
      [items |-> <<BBag("i/1", <<BCoin("i/1")>>)>>] }

InitItems ==
    /\ inventory = <<>>
    /\ lastItem = [op |-> "none"]
    /\ itemSteps = 0

\* a create action on the room inventory: the new item is appended and the
\* new state is kept only if it is valid
CreateInRoom(id, assetId) ==
    /\ itemSteps < MaxItemSteps
    /\ LET item == NewItem(id, ItemAssetById(assetId), Bundle(id, assetId, <<>>), FALSE)
           newItems == Append(inventory, item)
           r == ValidateRoomInventoryItems(newItems)
       IN  /\ inventory' = IF r.success THEN newItems ELSE inventory
           /\ lastItem' = [op |-> "create", path |-> 0, id |-> id, asset |-> assetId,
                           before |-> inventory, result |-> r]
    /\ itemSteps' = itemSteps + 1
    /\ UNCHANGED outsideItems

\* a create action whose container path is the storage module of the k-th
\* item: setContents with the new item added, the new state is kept only if
\* it is valid
CreateInContainer(k, id, assetId) ==
    /\ itemSteps < MaxItemSteps
    /\ k \in 1..Len(inventory)
    /\ inventory[k].asset.storage # NoStorage
    /\ LET container == inventory[k]
           item == NewItem(id, ItemAssetById(assetId), Bundle(id, assetId, <<>>), FALSE)
           contents == SetContents(container.asset.storage,
                                   Append(container.contents, item))
           newItems == [inventory EXCEPT ![k] = [container EXCEPT !.contents = contents]]
           r == ValidateRoomInventoryItems(newItems)
       IN  /\ inventory' = IF r.success THEN newItems ELSE inventory
           /\ lastItem' = [op |-> "create", path |-> k, id |-> id, asset |-> assetId,
                           before |-> inventory, set |-> contents, result |-> r]
    /\ itemSteps' = itemSteps + 1
    /\ UNCHANGED outsideItems

\* the room inventory is loaded from a stored bundle
Load(bundle) ==
    /\ itemSteps < MaxItemSteps
    /\ LET r == LoadFromBundle(bundle)
       IN  /\ inventory' = r.items
           /\ lastItem' = [op |-> "load", bundle |-> bundle, before |-> inventory,
                           asserted |-> r.asserted]
    /\ itemSteps' = itemSteps + 1
    /\ UNCHANGED outsideItems

\* the room inventory is saved and loaded again: export, then load
Reload ==
    /\ itemSteps < MaxItemSteps
    /\ LET bundle == ExportToBundle(inventory)
           r == LoadFromBundle(bundle)
       IN  /\ inventory' = r.items
           /\ lastItem' = [op |-> "reload", bundle |-> bundle, before |-> inventory,
                           asserted |-> r.asserted]
    /\ itemSteps' = itemSteps + 1
    /\ UNCHANGED outsideItems

----------------------------------------------------------------------------
(* Character.save and the changes it writes *)

\* steps (changes, save() calls and database answers) made on one character
MaxSaveSteps == 5

\* CharacterModification
NONE == "NONE"
MODIFIED == "MODIFIED"
PENDING == "PENDING"

\* the keys of the character's data that save() writes, and their values
DataKeys == {"name", "appearance"}
DataValues == {0, 1}

InitSave ==
    /\ saveState = NONE
    /\ modified = {}
    /\ charData = [k \in DataKeys |-> 0]
    /\ database = [k \in DataKeys |-> 0]
    /\ saving = {}
    /\ lastSave = [op |-> "none"]
    /\ saveSteps = 0

\* setValue(key, value)
SetValue(key, value) ==
    /\ saveSteps < MaxSaveSteps
    /\ charData[key] # value
    /\ charData' = [charData EXCEPT ![key] = value]
    /\ modified' = modified \cup {key}
    /\ saveState' = MODIFIED
    /\ lastSave' = [op |-> "setValue", key |-> key]
    /\ saveSteps' = saveSteps + 1
    /\ UNCHANGED <<database, saving>>
    /\ UNCHANGED outsideSave

\* onAppearanceChanged, after the appearance got the given bundle
OnAppearanceChanged(value) ==
    /\ saveSteps < MaxSaveSteps
    /\ charData' = [charData EXCEPT !["appearance"] = value]
    /\ modified' = modified \cup {"appearance"}
    /\ saveState' = MODIFIED
    /\ lastSave' = [op |-> "onAppearanceChanged"]
    /\ saveSteps' = saveSteps + 1
    /\ UNCHANGED <<database, saving>>
    /\ UNCHANGED outsideSave

\* save() up to its await: the keys taken out of modified and the data
\* handed to setCharacter
SaveBegin ==
    /\ saveSteps < MaxSaveSteps
    /\ saveState = MODIFIED
    /\ LET keys == modified
           data == [k \in keys |-> charData[k]]
       IN  /\ saving' = saving \cup {[keys |-> keys, data |-> data]}
           /\ lastSave' = [op |-> "save", keys |-> keys, data |-> data]
    /\ saveState' = PENDING
    /\ modified' = {}
    /\ saveSteps' = saveSteps + 1
    /\ UNCHANGED <<charData, database>>
    /\ UNCHANGED outsideSave

\* save() after a written save setting NONE whatever the state is
SaveSettledAlwaysNone(ok, state, mod, keys) ==
    IF ok
    THEN [state |-> NONE, modified |-> mod]
    ELSE [state |-> MODIFIED, modified |-> mod \cup keys]

\* save() after a failed write dropping the keys it was saving
SaveSettledDropsKeys(ok, state, mod, keys) ==
    IF ok
    THEN [state |-> IF state = PENDING THEN NONE ELSE state, modified |-> mod]
    ELSE [state |-> MODIFIED, modified |-> mod]

\* save() after its await: the state and the modified set it leaves
SaveSettled(ok, state, mod, keys) ==
    IF ok
    THEN [state |-> IF state = PENDING THEN NONE ELSE state, modified |-> mod]
    ELSE [state |-> MODIFIED, modified |-> mod \cup keys]

\* the database answers one waiting save(): written (ok) or failed
SaveEnd(call, ok) ==
    /\ saveSteps < MaxSaveSteps
    /\ call \in saving
    /\ saving' = saving \ {call}
    /\ database' = IF ok
                   THEN [k \in DataKeys |->
                            IF k \in call.keys THEN call.data[k] ELSE database[k]]
                   ELSE database
    /\ LET settled == SaveSettled(ok, saveState, modified, call.keys)
       IN  /\ saveState' = settled.state
           /\ modified' = settled.modified
    /\ lastSave' = [op |-> IF ok THEN "saved" ELSE "saveFailed", keys |-> call.keys]
    /\ saveSteps' = saveSteps + 1
    /\ UNCHANGED charData
    /\ UNCHANGED outsideSave

----------------------------------------------------------------------------
(* Slots occupied by the worn items: MergeAssetProperties *)

\* changes tried on the worn items of one character
MaxWearSteps == 3

\* the amount that fills a slot: amounts are counted in halves of a slot
WholeSlot == 2

Slots == {"hand", "head"}

\* occupySlots of an asset: slot -> amount; an amount may be undefined, which
\* is written as a value no amount has
UndefinedAmount == -1
NoSlots == [s \in {} |-> 0]
WornAssets ==
    { [occupySlots |-> [s \in {"hand"} |-> 2]],
      [occupySlots |-> [s \in {"hand"} |-> 1]],
      [occupySlots |-> [s \in {"hand"} |-> 0]],
      [occupySlots |-> [s \in Slots |-> IF s = "hand" THEN 1 ELSE 2]],
      [occupySlots |-> [s \in {"head"} |-> UndefinedAmount]],
      [occupySlots |-> NoSlots] }

\* CreateAssetPropertiesResult: slots.occupied is an empty map
CreateAssetPropertiesResult == [occupied |-> NoSlots]

\* map.get(slot) ?? 0
OccupiedOr0(occupied, slot) ==
    IF slot \in DOMAIN occupied THEN occupied[slot] ELSE 0

\* amount ?? 0
AmountOr0(amount) == IF amount = UndefinedAmount THEN 0 ELSE amount

\* MergeAssetProperties setting every slot to the amount of the last item
MergeAssetPropertiesLastAmount(base, properties) ==
    [occupied |->
        [s \in DOMAIN base.occupied \cup DOMAIN properties.occupySlots |->
            IF s \in DOMAIN properties.occupySlots
            THEN AmountOr0(properties.occupySlots[s])
            ELSE base.occupied[s]]]

\* MergeAssetProperties: slots.occupied of the result
MergeAssetProperties(base, properties) ==
    [occupied |->
        [s \in DOMAIN base.occupied \cup DOMAIN properties.occupySlots |->
            IF s \in DOMAIN properties.occupySlots
            THEN OccupiedOr0(base.occupied, s) + AmountOr0(properties.occupySlots[s])
            ELSE base.occupied[s]]]

RECURSIVE MergeAll(_, _, _)
\* the properties of the worn items merged in wear order, from item i on
MergeAll(items, i, base) ==
    IF i > Len(items) THEN base
    ELSE MergeAll(items, i + 1, MergeAssetProperties(base, items[i]))

\* validation of the worn items: no slot is occupied by more than its whole
SlotsValid(items) ==
    LET properties == MergeAll(items, 1, CreateAssetPropertiesResult)
    IN  \A s \in DOMAIN properties.occupied : properties.occupied[s] <= WholeSlot

InitWorn ==
    /\ worn = <<>>
    /\ lastWear = [op |-> "none"]
    /\ wearSteps = 0

\* an item of the asset is put on: kept only if the new state is valid
Wear(asset) ==
    /\ wearSteps < MaxWearSteps
    /\ LET newItems == Append(worn, asset)
           valid == SlotsValid(newItems)
       IN  /\ worn' = IF valid THEN newItems ELSE worn
           /\ lastWear' = [op |-> "wear", state |-> newItems, valid |-> valid]
    /\ wearSteps' = wearSteps + 1
    /\ UNCHANGED outsideWear

\* the k-th worn item is taken off
TakeOff(k) ==
    /\ wearSteps < MaxWearSteps
    /\ k \in 1..Len(worn)
    /\ LET newItems == SubSeq(worn, 1, k - 1) \o SubSeq(worn, k + 1, Len(worn))
           valid == SlotsValid(newItems)
       IN  /\ worn' = IF valid THEN newItems ELSE worn
           /\ lastWear' = [op |-> "takeOff", state |-> newItems, valid |-> valid]
    /\ wearSteps' = wearSteps + 1
    /\ UNCHANGED outsideWear

----------------------------------------------------------------------------
(* Actions against one space: the calls of DoAppearanceAction run on one   *)
(* thread; another call starts only when the running one has returned or   *)
(* has given up control at an await.                                       *)

\* actions begun on one space
MaxSpaceActions == 2

SpaceChars == {"c1", "c2"}
NoCall == [none |-> TRUE]

\* a DoAppearanceAction that awaits after its check
AwaitsAfterCheckAlways(action) == TRUE

\* whether DoAppearanceAction gives up control between its check and its
\* mutation: it is not async and has no await
AwaitsAfterCheck(action) == FALSE

\* the context of an action in the space: the player and all its characters
SpaceContext(player) == [player |-> player, characters |-> space]

\* the mutation DoAppearanceAction makes once its check has passed
Mutation(action, characters, assets) ==
    LET app == characters[action.target]
    IN  [characters EXCEPT ![action.target] =
            CASE action.type = "create" ->
                    CreateItem(app, action.itemId, GetAssetById(assets, action.asset))
              [] action.type = "delete" -> RemoveItem(app, action.itemId)
              [] action.type \in {"body", "pose"} ->
                    ImportPose(app, action.pose, action.type)]

InitSpace ==
    /\ space = [c \in SpaceChars |-> NewAppearance]
    /\ executing = NoCall
    /\ waiting = {}
    /\ lastSpace = [op |-> "none"]
    /\ begun = 0

\* a call of DoAppearanceAction starts, when no other call is running, and
\* runs its check
BeginAction(player, action) ==
    /\ begun < MaxSpaceActions
    /\ executing = NoCall
    /\ LET call == [player |-> player, action |-> action, seen |-> space,
                    checked |-> DoAppearanceAction(action, SpaceContext(player),
                                                   Assets, TRUE).result]
       IN  IF AwaitsAfterCheck(action)
           THEN waiting' = waiting \cup {call} /\ executing' = NoCall
           ELSE waiting' = waiting /\ executing' = call
    /\ begun' = begun + 1
    /\ UNCHANGED <<space, lastSpace>>
    /\ UNCHANGED outsideSpace

\* a call goes on after its check, at once or when it gets control back: it
\* mutates if the check has passed, and returns
FinishAction(call) ==
    /\ \/ call = executing
       \/ executing = NoCall /\ call \in waiting
    /\ call # NoCall
    /\ space' = IF call.checked THEN Mutation(call.action, space, Assets) ELSE space
    /\ lastSpace' = [op |-> "action", player |-> call.player, action |-> call.action,
                     seen |-> call.seen, before |-> space, result |-> call.checked]
    /\ executing' = NoCall
    /\ waiting' = waiting \ {call}
    /\ UNCHANGED begun
    /\ UNCHANGED outsideSpace

----------------------------------------------------------------------------
(* The rooms of the directory: pandora-server-directory/src/room/room.ts   *)
(* A world w is the rooms and the room of every character.                 *)

\* calls made on the rooms of one directory
MaxRoomSteps == 2

Accounts == {1, 2, 3}

\* character.account.id
AccountOf(c) == CASE c = "c1" -> 1 [] c = "c2" -> 2 [] c = "c3" -> 2

NoShard == "null"
TheShard == "s1"

\* list.includes(x)
Includes(list, x) == \E i \in 1..Len(list) : list[i] = x

\* lodash uniq: the first occurrence of every value, in order
Uniq(list) ==
    SelectSeq([i \in 1..Len(list) |->
                    [v |-> list[i],
                     first |-> \A j \in 1..(i - 1) : list[j] # list[i]]],
              LAMBDA e : e.first)

\* the values of the entries Uniq keeps
UniqValues(list) == [i \in 1..Len(Uniq(list)) |-> Uniq(list)[i].v]

\* list.filter((id) => !targets.includes(id))
Without(list, targets) ==
    LET kept == SelectSeq([i \in 1..Len(list) |->
                              [v |-> list[i], keep |-> ~Includes(targets, list[i])]],
                          LAMBDA e : e.keep)
    IN  [i \in 1..Len(kept) |-> kept[i].v]

\* config.password of a room without password
NoPassword == "<null>"

\* the accounts with the developer role
Developers == {2}

\* new Room(id, config, owners); autoAdmin is config.development?.autoAdmin
NewRoom(config, owners) ==
    [owners |-> owners,
     admin |-> UniqValues(config.admin), banned |-> UniqValues(config.banned),
     maxUsers |-> config.maxUsers, public |-> config.public,
     password |-> config.password, autoAdmin |-> config.autoAdmin,
     characters |-> {}, assignedShard |-> NoShard, destroyed |-> FALSE]

IsOwner(room, account) == account \in room.owners

IsAdmin(room, account) ==
    \/ IsOwner(room, account)
    \/ Includes(room.admin, account)
    \/ room.autoAdmin /\ account \in Developers

IsBanned(room, account) == ~IsAdmin(room, account) /\ Includes(room.banned, account)

\* Room.disconnect: assignedShard?.disconnectRoom(this)
Disconnect(w, r) == [w EXCEPT !.rooms[r].assignedShard = NoShard]

CleanupIfEmpty(w, r) ==
    IF w.rooms[r].characters = {} THEN Disconnect(w, r) ELSE w

RECURSIVE RemoveCharacter(_, _, _, _), RemoveBannedCharacters(_, _)

RemoveCharacter(w, r, c, reason) ==
    IF w.chars[c] # r THEN w
    ELSE LET removed == [w EXCEPT !.rooms[r].characters = @ \ {c},
                                  !.chars[c] = NoRoom]
             banned ==
                IF reason = "ban" /\ ~Includes(removed.rooms[r].banned, AccountOf(c))
                THEN RemoveBannedCharacters(
                        [removed EXCEPT !.rooms[r].banned = Append(@, AccountOf(c))], r)
                ELSE removed
         IN  CleanupIfEmpty(banned, r)

RemoveBannedCharacters(w, r) ==
    LET banned == { c \in w.rooms[r].characters : IsBanned(w.rooms[r], AccountOf(c)) }
    IN  IF banned = {} THEN w
        ELSE RemoveBannedCharacters(
                RemoveCharacter(w, r, CHOOSE c \in banned : TRUE, "ban"), r)

\* addCharacter without the test for a character that is in another room
AddCharacterFromAnywhere(w, r, c) ==
    IF w.chars[c] = r THEN [w |-> w, thrown |-> FALSE]
    ELSE IF IsBanned(w.rooms[r], AccountOf(c)) THEN [w |-> w, thrown |-> FALSE]
    ELSE [w |-> [w EXCEPT !.rooms[r].characters = @ \cup {c}, !.chars[c] = r],
          thrown |-> FALSE]

\* addCharacter: the world it leaves and whether it throws
AddCharacter(w, r, c) ==
    IF w.chars[c] = r THEN [w |-> w, thrown |-> FALSE]
    ELSE IF IsBanned(w.rooms[r], AccountOf(c)) THEN [w |-> w, thrown |-> FALSE]
    ELSE IF w.chars[c] # NoRoom THEN [w |-> w, thrown |-> TRUE]
    ELSE [w |-> [w EXCEPT !.rooms[r].characters = @ \cup {c}, !.chars[c] = r],
          thrown |-> FALSE]

\* a password argument that JavaScript takes as true: not null, not empty
Truthy(password) == password # NoPassword /\ password # ""

\* checkAllowEnter trying the password before looking at the ban list
CheckAllowEnterPasswordFirst(w, r, c, password, ignoreCharacterLimit) ==
    LET room == w.rooms[r]
    IN  IF w.chars[c] = r THEN "ok"
        ELSE IF Cardinality(room.characters) >= room.maxUsers /\ ~ignoreCharacterLimit
        THEN "errFull"
        ELSE IF IsAdmin(room, AccountOf(c)) THEN "ok"
        ELSE IF room.password # NoPassword /\ Truthy(password) /\ password = room.password
        THEN "ok"
        ELSE IF Includes(room.banned, AccountOf(c)) THEN "noAccess"
        ELSE IF room.public /\ room.password = NoPassword THEN "ok"
        ELSE IF room.password # NoPassword /\ Truthy(password) THEN "invalidPassword"
        ELSE "noAccess"

\* checkAllowEnter(character, password, ignoreCharacterLimit)
CheckAllowEnter(w, r, c, password, ignoreCharacterLimit) ==
    LET room == w.rooms[r]
    IN  IF w.chars[c] = r THEN "ok"
        ELSE IF Cardinality(room.characters) >= room.maxUsers /\ ~ignoreCharacterLimit
        THEN "errFull"
        ELSE IF IsAdmin(room, AccountOf(c)) THEN "ok"
        ELSE IF Includes(room.banned, AccountOf(c)) THEN "noAccess"
        ELSE IF room.password # NoPassword /\ Truthy(password) /\ password = room.password
        THEN "ok"
        ELSE IF room.public /\ room.password = NoPassword THEN "ok"
        ELSE IF room.password # NoPassword /\ Truthy(password) THEN "invalidPassword"
        ELSE "noAccess"

\* update(changes, source): changes holds the fields that are set
Update(w, r, changes) ==
    LET maxUsers == IF "maxUsers" \in DOMAIN changes
                    THEN [w EXCEPT !.rooms[r].maxUsers = changes.maxUsers]
                    ELSE w
        admin == IF "admin" \in DOMAIN changes
                 THEN [maxUsers EXCEPT !.rooms[r].admin = UniqValues(changes.admin)]
                 ELSE maxUsers
        banned == IF "banned" \in DOMAIN changes
                  THEN RemoveBannedCharacters(
                        [admin EXCEPT !.rooms[r].banned = UniqValues(changes.banned)], r)
                  ELSE admin
        public == IF "public" \in DOMAIN changes
                  THEN [banned EXCEPT !.rooms[r].public = changes.public]
                  ELSE banned
    IN  IF "password" \in DOMAIN changes
        THEN [public EXCEPT !.rooms[r].password = changes.password]
        ELSE public

RECURSIVE KickAll(_, _, _)
\* the loop of adminAction 'kick' over the characters given
KickAll(w, r, cs) ==
    IF cs = {} THEN w
    ELSE LET c == CHOOSE c \in cs : TRUE
         IN  KickAll(RemoveCharacter(w, r, c, "kick"), r, cs \ {c})

\* adminAction(source, action, targets)
AdminAction(w, r, action, targetList) ==
    LET targets == UniqValues(targetList)
        room == w.rooms[r]
    IN  CASE action = "kick" ->
                KickAll(w, r, { c \in room.characters : Includes(targets, AccountOf(c)) })
          [] action = "ban" ->
                LET banned == UniqValues(room.banned \o targets)
                    listed == [w EXCEPT !.rooms[r].banned = banned]
                IN  IF Len(banned) # Len(room.banned)
                    THEN RemoveBannedCharacters(listed, r) ELSE listed
          [] action = "unban" ->
                [w EXCEPT !.rooms[r].banned = Without(@, targets)]
          [] action = "promote" ->
                [w EXCEPT !.rooms[r].admin = UniqValues(@ \o targets)]
          [] action = "demote" ->
                [w EXCEPT !.rooms[r].admin = Without(@, targets)]

RECURSIVE RemoveAll(_, _, _)
\* the loop of onDestroy over the characters given
RemoveAll(w, r, cs) ==
    IF cs = {} THEN w
    ELSE LET c == CHOOSE c \in cs : TRUE
         IN  RemoveAll(RemoveCharacter(w, r, c, "destroy"), r, cs \ {c})

\* onDestroy: the world it leaves; destroyed records that its assertions passed
OnDestroy(w, r) ==
    LET left == Disconnect(RemoveAll(w, r, w.rooms[r].characters), r)
    IN  [left EXCEPT !.rooms[r].destroyed =
            left.rooms[r].assignedShard = NoShard /\ left.rooms[r].characters = {}]

\* RoomManager.destroyRoom
DestroyRoom(w, r) == OnDestroy(w, r)

\* removeOwner adding the account to the admin list without looking
RemoveOwnerAlwaysPushes(w, r, account) ==
    LET demoted == [w EXCEPT !.rooms[r].owners = @ \ {account},
                             !.rooms[r].admin = Append(@, account)]
    IN  IF demoted.rooms[r].owners = {} THEN DestroyRoom(demoted, r) ELSE demoted

\* removeOwner(accountId)
RemoveOwner(w, r, account) ==
    LET demoted == [w EXCEPT !.rooms[r].owners = @ \ {account},
                             !.rooms[r].admin =
                                IF Includes(@, account) THEN @ ELSE Append(@, account)]
    IN  IF demoted.rooms[r].owners = {} THEN DestroyRoom(demoted, r) ELSE demoted

\* the inputs: lists of account ids, and the characters inside the rooms at
\* the start
AccountLists == { <<1>>, <<2>>, <<3, 1>>, <<2, 2>> }
ChangeSets ==
    { [admin |-> l] : l \in AccountLists }
    \cup { [banned |-> l] : l \in AccountLists }
    \cup { [admin |-> <<3>>, banned |-> <<3, 2>>] }
AdminActions == {"kick", "ban", "unban", "promote", "demote"}
LeaveReasons == {"leave", "ban"}
RoomOwners == [r \in Rooms |-> IF r = "r1" THEN {1} ELSE {1, 2}]
Placements == [Chars -> Rooms \cup {NoRoom}]

\* the configs of the rooms whose doors are tried, the characters that try
\* them and the passwords they give
EnterConfigs ==
    { [admin |-> <<>>, banned |-> banned, maxUsers |-> maxUsers, public |-> public,
       password |-> password, autoAdmin |-> autoAdmin] :
        banned \in { <<>>, <<2>> }, maxUsers \in {1, Cardinality(Chars)},
        public \in BOOLEAN, password \in {NoPassword, "pw"}, autoAdmin \in BOOLEAN }
EnterChars == {"c1", "c2"}
Passwords == {NoPassword, "pw", "wrong"}

World == [rooms |-> dirRooms, chars |-> dirChars]

\* the config of a public room without password, admins and bans
OpenConfig ==
    [admin |-> <<>>, banned |-> <<>>, maxUsers |-> Cardinality(Chars), public |-> TRUE,
     password |-> NoPassword, autoAdmin |-> FALSE]

\* rooms as constructed from the configs, with the characters placed inside
\* and, where there are characters, a shard assigned
RoomsMade(configs, placement) ==
    /\ dirChars = placement
    /\ dirRooms = [r \in Rooms |->
                    LET inside == { c \in Chars : placement[c] = r }
                    IN  [NewRoom(configs[r], RoomOwners[r]) EXCEPT
                            !.characters = inside,
                            !.assignedShard = IF inside = {} THEN NoShard ELSE TheShard]]
    /\ lastRoom = [op |-> "none"]
    /\ roomSteps = 0

RoomsWith(placement) == RoomsMade([r \in Rooms |-> OpenConfig], placement)

\* the configs of a room whose admin and ban lists were saved with an account
\* in them, and the characters that have entered it since it was loaded:
\* addCharacter lets in the characters that are not banned
BanConfigs ==
    { [OpenConfig EXCEPT !.admin = admin, !.banned = banned] :
        admin \in { <<>>, <<2>> }, banned \in { <<>>, <<2>> } }
Entered(config) ==
    { placement \in [Chars -> {"r1", NoRoom}] :
        \A c \in Chars : placement[c] = "r1" =>
            ~IsBanned(NewRoom(config, RoomOwners["r1"]), AccountOf(c)) }

\* rooms that nobody has entered
EmptyRooms == RoomsWith([c \in Chars |-> NoRoom])

InitRooms == \E placement \in Placements : RoomsWith(placement)

\* a call on room r returns: the world it leaves, recorded with the call
Returned(r, call, w) ==
    /\ dirRooms' = w.rooms
    /\ dirChars' = w.chars
    /\ lastRoom' = call @@ [room |-> r, before |-> World]
    /\ roomSteps' = roomSteps + 1

DoAddCharacter(r, c) ==
    /\ roomSteps < MaxRoomSteps
    /\ ~dirRooms[r].destroyed
    /\ LET res == AddCharacter(World, r, c)
       IN  Returned(r, [op |-> "addCharacter", character |-> c, thrown |-> res.thrown],
                    res.w)
    /\ UNCHANGED outsideRoom

DoCheckAllowEnter(r, c, password, ignoreCharacterLimit) ==
    /\ roomSteps < MaxRoomSteps
    /\ ~dirRooms[r].destroyed
    /\ Returned(r, [op |-> "checkAllowEnter", character |-> c, password |-> password,
                    ignoreCharacterLimit |-> ignoreCharacterLimit,
                    result |-> CheckAllowEnter(World, r, c, password,
                                               ignoreCharacterLimit)],
                World)
    /\ UNCHANGED outsideRoom

DoRemoveCharacter(r, c, reason) ==
    /\ roomSteps < MaxRoomSteps
    /\ ~dirRooms[r].destroyed
    /\ Returned(r, [op |-> "removeCharacter", character |-> c, reason |-> reason],
                RemoveCharacter(World, r, c, reason))
    /\ UNCHANGED outsideRoom

DoUpdate(r, changes) ==
    /\ roomSteps < MaxRoomSteps
    /\ ~dirRooms[r].destroyed
    /\ Returned(r, [op |-> "update", changes |-> changes], Update(World, r, changes))
    /\ UNCHANGED outsideRoom

DoAdminAction(r, action, targets) ==
    /\ roomSteps < MaxRoomSteps
    /\ ~dirRooms[r].destroyed
    /\ Returned(r, [op |-> "adminAction", action |-> action, targets |-> targets],
                AdminAction(World, r, action, targets))
    /\ UNCHANGED outsideRoom

DoRemoveOwner(r, account) ==
    /\ roomSteps < MaxRoomSteps
    /\ ~dirRooms[r].destroyed
    /\ Returned(r, [op |-> "removeOwner", account |-> account],
                RemoveOwner(World, r, account))
    /\ UNCHANGED outsideRoom

----------------------------------------------------------------------------
(* The shard's connection to the Directory: SocketIODirectoryConnector *)

\* calls and events on one connector
MaxConnSteps == 7

\* DirectoryConnectionState (NONE, the first of them, is named above)
INITIAL_CONNECTION_PENDING == "INITIAL_CONNECTION_PENDING"
REGISTRATION_PENDING == "REGISTRATION_PENDING"
CONNECTED == "CONNECTED"
CONNECTION_LOST == "CONNECTION_LOST"
DISCONNECTED == "DISCONNECTED"

\* the awaits of register(): the response of 'shardRegister', then
\* updateFromDirectory
AwaitResponse == "awaitResponse"
AwaitUpdate == "updateFromDirectory"

InitConnector ==
    /\ connState = NONE
    /\ socket = "idle"
    /\ registers = [a \in {AwaitResponse, AwaitUpdate} |-> 0]
    /\ lastConn = [op |-> "none"]
    /\ connSteps = 0

\* connect(): throws unless the state is NONE
Connect ==
    /\ connSteps < MaxConnSteps
    /\ IF connState # NONE
       THEN /\ lastConn' = [op |-> "connect", thrown |-> TRUE, before |-> connState]
            /\ UNCHANGED <<connState, socket>>
       ELSE /\ connState' = INITIAL_CONNECTION_PENDING
            /\ socket' = "connecting"
            /\ lastConn' = [op |-> "connect", thrown |-> FALSE, before |-> connState]
    /\ connSteps' = connSteps + 1
    /\ UNCHANGED registers
    /\ UNCHANGED outsideConn

\* disconnect(), also called by the timeout of the first connection
ConnDisconnect ==
    /\ connSteps < MaxConnSteps
    /\ IF connState = NONE
       THEN connState' = DISCONNECTED /\ UNCHANGED socket
       ELSE IF connState = DISCONNECTED
       THEN UNCHANGED <<connState, socket>>
       ELSE connState' = DISCONNECTED /\ socket' = "closed"
    /\ lastConn' = [op |-> "disconnect", before |-> connState]
    /\ connSteps' = connSteps + 1
    /\ UNCHANGED registers
    /\ UNCHANGED outsideConn

\* the socket's 'connect' event: onConnect, which starts register()
OnConnect ==
    /\ connSteps < MaxConnSteps
    /\ socket = "connecting"
    /\ socket' = "open"
    /\ IF connState \in {INITIAL_CONNECTION_PENDING, CONNECTION_LOST}
       THEN /\ connState' = REGISTRATION_PENDING
            /\ registers' = [registers EXCEPT ![AwaitResponse] = @ + 1]
       ELSE UNCHANGED <<connState, registers>>
    /\ lastConn' = [op |-> "onConnect", before |-> connState]
    /\ connSteps' = connSteps + 1
    /\ UNCHANGED outsideConn

\* the socket's 'disconnect' event: onDisconnect; the socket connects again
OnDisconnect ==
    /\ connSteps < MaxConnSteps
    /\ socket = "open"
    /\ socket' = "connecting"
    /\ connState' = IF connState = DISCONNECTED THEN connState
                    ELSE IF connState \in {CONNECTED, REGISTRATION_PENDING}
                    THEN CONNECTION_LOST
                    ELSE connState
    /\ lastConn' = [op |-> "onDisconnect", before |-> connState]
    /\ connSteps' = connSteps + 1
    /\ UNCHANGED registers
    /\ UNCHANGED outsideConn

\* register() gets the response of 'shardRegister' (ok) or its request fails:
\* a response is ignored unless the state is REGISTRATION_PENDING, otherwise
\* register() goes on to await updateFromDirectory
RegisterResponse(ok) ==
    /\ connSteps < MaxConnSteps
    /\ registers[AwaitResponse] > 0
    /\ registers' =
        [registers EXCEPT
            ![AwaitResponse] = @ - 1,
            ![AwaitUpdate] = IF ok /\ connState = REGISTRATION_PENDING THEN @ + 1 ELSE @]
    /\ lastConn' = [op |-> "registerResponse", ok |-> ok, before |-> connState]
    /\ connSteps' = connSteps + 1
    /\ UNCHANGED <<connState, socket>>
    /\ UNCHANGED outsideConn

\* the state register() sets after updateFromDirectory
Registered(state) == CONNECTED

\* updateFromDirectory of a register() call is done: register() ends
RegisterDone ==
    /\ connSteps < MaxConnSteps
    /\ registers[AwaitUpdate] > 0
    /\ registers' = [registers EXCEPT ![AwaitUpdate] = @ - 1]
    /\ connState' = Registered(connState)
    /\ lastConn' = [op |-> "registered", before |-> connState]
    /\ connSteps' = connSteps + 1
    /\ UNCHANGED socket
    /\ UNCHANGED outsideConn

----------------------------------------------------------------------------
(* The clock of a directory room: touch() and the times of its messages    *)
(* Date.now() is an input of every read: it may stand still or go back.    *)

\* touch() and sendMessage() calls made on one room
MaxClockSteps == 3

\* the values Date.now() returns
LatestTime == 2
Times == 0..LatestTime

\* the messages of one sendMessage() call: the clock read for each of them
ClockReads == { <<>> } \cup { <<a>> : a \in Times } \cup { <<a, b>> : a, b \in Times }

\* new Room(...) when the clock shows now: lastActivity = Date.now(),
\* lastMessageTime = 0
ClockAt(now) ==
    /\ lastActivity = now
    /\ lastMessageTime = 0
    /\ pendingMessages = <<>>
    /\ lastClock = [op |-> "none"]
    /\ clockSteps = 0

\* a room made when the clock showed 0
InitClock == ClockAt(0)

\* touch() keeping the later of the old timestamp and the clock
TouchedNeverBack(previous, now) == IF now > previous THEN now ELSE previous

\* the timestamp touch() leaves
Touched(previous, now) == now

Touch(now) ==
    /\ clockSteps < MaxClockSteps
    /\ lastActivity' = Touched(lastActivity, now)
    /\ lastClock' = [op |-> "touch", now |-> now, previous |-> lastActivity]
    /\ clockSteps' = clockSteps + 1
    /\ UNCHANGED <<lastMessageTime, pendingMessages>>
    /\ UNCHANGED outsideClock

\* nextMessageTime() taking the clock unless it is behind the last time
NextMessageTimeBehind(lastTime, now) == IF now < lastTime THEN lastTime + 1 ELSE now

\* nextMessageTime(): the time returned, which is also the new lastMessageTime
NextMessageTime(lastTime, now) == IF now <= lastTime THEN lastTime + 1 ELSE now

RECURSIVE ProcessedMessages(_, _)
\* messages.map(...): the directoryTime of every message, in order
ProcessedMessages(lastTime, reads) ==
    IF reads = <<>> THEN <<>>
    ELSE LET time == NextMessageTime(lastTime, Head(reads))
         IN  <<time>> \o ProcessedMessages(time, Tail(reads))

\* sendMessage(...messages)
SendMessage(reads) ==
    /\ clockSteps < MaxClockSteps
    /\ LET processed == ProcessedMessages(lastMessageTime, reads)
       IN  /\ pendingMessages' = pendingMessages \o processed
           /\ lastMessageTime' = IF processed = <<>> THEN lastMessageTime
                                 ELSE processed[Len(processed)]
           /\ lastClock' = [op |-> "sendMessage", reads |-> reads,
                            sent |-> processed, before |-> pendingMessages]
    /\ clockSteps' = clockSteps + 1
    /\ UNCHANGED lastActivity
    /\ UNCHANGED outsideClock

----------------------------------------------------------------------------
(* Connection, timeout timer and invalidation of a shard Character.        *)
(* The character is in no room; a connection does not call back into the   *)
(* character when it is aborted.                                           *)

\* calls and timer events on one character
MaxLifeSteps == 5

\* invalid === null, connection === null
NoReason == "null"
NoConnection == "null"

Reasons == {"timeout", "error", "remove"}
Connections == {"k1", "k2"}

\* the fields of the character that invalidation touches
Life ==
    [invalid |-> invalid, connection |-> connection, timeout |-> timeout,
     directoryMessages |-> directoryMessages]

\* invalidate(reason) taking the new reason when called again
InvalidatedAgain(ch, reason) ==
    [invalid |-> reason, connection |-> NoConnection, timeout |-> FALSE,
     directoryMessages |-> IF reason # "remove"
                           THEN Append(ch.directoryMessages, reason)
                           ELSE ch.directoryMessages]

\* invalidate(reason): the character it leaves
Invalidated(ch, reason) ==
    IF ch.invalid # NoReason THEN ch
    ELSE [invalid |-> reason, connection |-> NoConnection, timeout |-> FALSE,
          directoryMessages |-> IF reason # "remove"
                                THEN Append(ch.directoryMessages, reason)
                                ELSE ch.directoryMessages]

\* setConnection(connection) on a valid character: the character it leaves
Connected(ch, conn) ==
    [ch EXCEPT !.connection = conn,
               !.timeout = conn = NoConnection /\ ch.invalid = NoReason]

\* the character after a call or event, recorded with the call
Becomes(ch, call) ==
    /\ invalid' = ch.invalid
    /\ connection' = ch.connection
    /\ timeout' = ch.timeout
    /\ directoryMessages' = ch.directoryMessages
    /\ lastLife' = call @@ [before |-> Life]
    /\ lifeSteps' = lifeSteps + 1

\* new Character(...): setConnection(null) on the fresh character
InitLife ==
    /\ invalid = NoReason
    /\ connection = NoConnection
    /\ timeout = TRUE
    /\ directoryMessages = <<>>
    /\ lastLife = [op |-> "none"]
    /\ lifeSteps = 0

\* setConnection(connection): AssertNever() throws on an invalid character
SetConnection(conn) ==
    /\ lifeSteps < MaxLifeSteps
    /\ IF invalid # NoReason
       THEN Becomes(Life, [op |-> "setConnection", assertNever |-> TRUE])
       ELSE Becomes(Connected(Life, conn), [op |-> "setConnection", assertNever |-> FALSE])
    /\ UNCHANGED outsideLife

\* the timeout timer fires: handleTimeout()
HandleTimeout ==
    /\ lifeSteps < MaxLifeSteps
    /\ timeout
    /\ IF invalid # NoReason
       THEN Becomes(Life, [op |-> "handleTimeout", assertNever |-> TRUE])
       ELSE Becomes(Invalidated(Life, "timeout"),
                    [op |-> "handleTimeout", assertNever |-> FALSE])
    /\ UNCHANGED outsideLife

\* saveAndDisconnect() up to its await: invalidate('remove'), then save() up
\* to its own await
SaveAndDisconnect ==
    /\ lifeSteps < MaxLifeSteps
    /\ saveSteps < MaxSaveSteps
    /\ Becomes(Invalidated(Life, "remove"), [op |-> "saveAndDisconnect"])
    /\ IF saveState = MODIFIED
       THEN /\ saving' = saving \cup {[keys |-> modified,
                                        data |-> [k \in modified |-> charData[k]]]}
            /\ lastSave' = [op |-> "save", keys |-> modified,
                            data |-> [k \in modified |-> charData[k]]]
            /\ saveState' = PENDING
            /\ modified' = {}
       ELSE /\ lastSave' = [op |-> "saveAndDisconnect"]
            /\ UNCHANGED <<saving, saveState, modified>>
    /\ saveSteps' = saveSteps + 1
    /\ UNCHANGED <<charData, database>>
    /\ UNCHANGED outsideCharacter

\* onRemove(): the changes not yet saved are given up and the character is
\* invalidated; save() calls that wait for the database go on
OnRemove ==
    /\ lifeSteps < MaxLifeSteps
    /\ saveSteps < MaxSaveSteps
    /\ saveState' = NONE
    /\ modified' = {}
    /\ lastSave' = [op |-> "onRemove"]
    /\ saveSteps' = saveSteps + 1
    /\ Becomes(Invalidated(Life, "remove"), [op |-> "onRemove"])
    /\ UNCHANGED <<charData, database, saving>>
    /\ UNCHANGED outsideCharacter

----------------------------------------------------------------------------
(* The constraint tree of one composition: merge, validate, force *)

InitLimits ==
    /\ root = NewTree
    /\ merges = 0
    /\ last = [op |-> "new"]

InitTree ==
    /\ InitLimits
    /\ InitCharacters
    /\ InitItems
    /\ InitSave
    /\ InitWorn
    /\ InitSpace
    /\ InitClock
    /\ InitLife
    /\ EmptyRooms
    /\ InitConnector

Merge(limits) ==
    /\ merges < MaxMerges
    /\ LET res == TreeMerge(root, limits)
       IN  /\ root' = res.root
           /\ last' = [op |-> "merge", limits |-> limits, before |-> root, ret |-> res.ret]
    /\ merges' = merges + 1
    /\ UNCHANGED outsideTree

Validate(pose) ==
    /\ last' = [op |-> "validate", pose |-> pose, ret |-> TreeValidate(root, pose)]
    /\ UNCHANGED <<root, merges>>
    /\ UNCHANGED outsideTree

Force(pose) ==
    /\ last' = [op |-> "force", pose |-> pose, ret |-> TreeForce(root, pose)]
    /\ UNCHANGED <<root, merges>>
    /\ UNCHANGED outsideTree

NextTree ==
    \/ \E limits \in LimitDefs \cup {NoLimits} : Merge(limits)
    \/ \E pose \in Poses : Validate(pose)
    \/ \E pose \in FullPoses : Force(pose)

SpecTree == InitTree /\ [][NextTree]_vars

----------------------------------------------------------------------------
(* Appearance actions of the characters of a shard *)

InitAction ==
    /\ InitCharacters
    /\ InitLimits
    /\ InitItems
    /\ InitSave
    /\ InitWorn
    /\ InitSpace
    /\ InitClock
    /\ InitLife
    /\ EmptyRooms
    /\ InitConnector

NextAction ==
    \/ \E char \in Chars, room \in Rooms \cup {NoRoom} :
            LinkRoom(char, room)
    \/ \E player \in Chars, action \in AppearanceActions, dryRun \in BOOLEAN :
            AppearanceAction(player, action, dryRun)

SpecAction == InitAction /\ [][NextAction]_vars

----------------------------------------------------------------------------
(* The room inventory: create actions, load and export *)

InitInventory ==
    /\ InitItems
    /\ InitLimits
    /\ InitCharacters
    /\ InitSave
    /\ InitWorn
    /\ InitSpace
    /\ InitClock
    /\ InitLife
    /\ EmptyRooms
    /\ InitConnector

NextItems ==
    \/ \E id \in StoredIds, assetId \in StoredAssetIds : CreateInRoom(id, assetId)
    \/ \E k \in 1..2, id \in StoredIds, assetId \in StoredAssetIds :
            CreateInContainer(k, id, assetId)
    \/ \E bundle \in RoomBundles : Load(bundle)
    \/ Reload

SpecItems == InitInventory /\ [][NextItems]_vars

----------------------------------------------------------------------------
(* One character's changes and saves *)

InitPersistence ==
    /\ InitSave
    /\ InitLimits
    /\ InitCharacters
    /\ InitItems
    /\ InitWorn
    /\ InitSpace
    /\ InitClock
    /\ InitLife
    /\ EmptyRooms
    /\ InitConnector

SavingCalls ==
    { [keys |-> keys, data |-> data] :
        keys \in SUBSET DataKeys, data \in UNION { [ks -> DataValues] : ks \in SUBSET DataKeys } }

NextSave ==
    \/ \E value \in DataValues : SetValue("name", value)
    \/ \E value \in DataValues : OnAppearanceChanged(value)
    \/ SaveBegin
    \/ \E call \in SavingCalls, ok \in BOOLEAN : SaveEnd(call, ok)
    \/ OnRemove

SpecSave == InitPersistence /\ [][NextSave]_vars

----------------------------------------------------------------------------
(* The worn items of one character *)

InitWear ==
    /\ InitWorn
    /\ InitLimits
    /\ InitCharacters
    /\ InitItems
    /\ InitSave
    /\ InitSpace
    /\ InitClock
    /\ InitLife
    /\ EmptyRooms
    /\ InitConnector

NextWear ==
    \/ \E asset \in WornAssets : Wear(asset)
    \/ \E k \in 1..MaxWearSteps : TakeOff(k)

SpecWear == InitWear /\ [][NextWear]_vars

----------------------------------------------------------------------------
(* The actions against one space *)

InitSpaceActions ==
    /\ InitSpace
    /\ InitLimits
    /\ InitCharacters
    /\ InitItems
    /\ InitSave
    /\ InitWorn
    /\ InitClock
    /\ InitLife
    /\ EmptyRooms
    /\ InitConnector

NextSpace ==
    \/ \E player \in SpaceChars, action \in AppearanceActions :
            BeginAction(player, action)
    \/ \E call \in waiting \cup {executing} : FinishAction(call)

SpecSpace == InitSpaceActions /\ [][NextSpace]_vars

----------------------------------------------------------------------------
(* The rooms of one directory *)

InitDirectory ==
    /\ InitRooms
    /\ InitLimits
    /\ InitCharacters
    /\ InitItems
    /\ InitSave
    /\ InitWorn
    /\ InitSpace
    /\ InitConnector
    /\ InitClock
    /\ InitLife

NextRoom ==
    \/ \E r \in Rooms, c \in Chars : DoAddCharacter(r, c)
    \/ \E r \in Rooms, c \in Chars, reason \in LeaveReasons : DoRemoveCharacter(r, c, reason)
    \/ \E r \in Rooms, changes \in ChangeSets : DoUpdate(r, changes)
    \/ \E r \in Rooms, action \in AdminActions, targets \in AccountLists :
            DoAdminAction(r, action, targets)
    \/ \E r \in Rooms, account \in Accounts : DoRemoveOwner(r, account)

SpecRoom == InitDirectory /\ [][NextRoom]_vars

----------------------------------------------------------------------------
(* The doors of the rooms: who may enter *)

InitDoors ==
    /\ \E config \in EnterConfigs :
            RoomsMade([r \in Rooms |-> config], [c \in Chars |-> NoRoom])
    /\ InitLimits
    /\ InitCharacters
    /\ InitItems
    /\ InitSave
    /\ InitWorn
    /\ InitSpace
    /\ InitConnector
    /\ InitClock
    /\ InitLife

NextEnter ==
    \/ \E r \in Rooms, c \in EnterChars : DoAddCharacter(r, c)
    \/ \E r \in Rooms, c \in EnterChars, password \in Passwords,
          ignoreCharacterLimit \in BOOLEAN :
            DoCheckAllowEnter(r, c, password, ignoreCharacterLimit)

SpecEnter == InitDoors /\ [][NextEnter]_vars

----------------------------------------------------------------------------
(* Bans in rooms loaded with admin and ban lists *)

InitBans ==
    /\ \E config \in BanConfigs : \E placement \in Entered(config) :
            RoomsMade([r \in Rooms |-> config], placement)
    /\ InitLimits
    /\ InitCharacters
    /\ InitItems
    /\ InitSave
    /\ InitWorn
    /\ InitSpace
    /\ InitConnector
    /\ InitClock
    /\ InitLife

SpecBans == InitBans /\ [][NextRoom]_vars

----------------------------------------------------------------------------
(* One connector of a shard *)

InitConnection ==
    /\ InitConnector
    /\ InitLimits
    /\ InitCharacters
    /\ InitItems
    /\ InitSave
    /\ InitWorn
    /\ InitSpace
    /\ InitClock
    /\ InitLife
    /\ EmptyRooms

NextConn ==
    \/ Connect
    \/ ConnDisconnect
    \/ OnConnect
    \/ OnDisconnect
    \/ \E ok \in BOOLEAN : RegisterResponse(ok)
    \/ RegisterDone

SpecConn == InitConnection /\ [][NextConn]_vars

----------------------------------------------------------------------------
(* The clock of one directory room *)

InitRoomClock ==
    /\ \E now \in Times : ClockAt(now)
    /\ InitLimits
    /\ InitCharacters
    /\ InitItems
    /\ InitSave
    /\ InitWorn
    /\ InitSpace
    /\ EmptyRooms
    /\ InitConnector
    /\ InitLife

NextClock ==
    \/ \E now \in Times : Touch(now)
    \/ \E reads \in ClockReads : SendMessage(reads)

SpecClock == InitRoomClock /\ [][NextClock]_vars

----------------------------------------------------------------------------
(* The connections and the end of one character *)

InitCharacterLife ==
    /\ InitLife
    /\ InitLimits
    /\ InitCharacters
    /\ InitItems
    /\ InitSave
    /\ InitWorn
    /\ InitSpace
    /\ EmptyRooms
    /\ InitConnector
    /\ InitClock

NextLife ==
    \/ \E conn \in Connections \cup {NoConnection} : SetConnection(conn)
    \/ HandleTimeout
    \/ SaveAndDisconnect
    \/ OnRemove

SpecLife == InitCharacterLife /\ [][NextLife]_vars

----------------------------------------------------------------------------
(* Claims about the constraint tree (checked under SpecTree) *)

\* C1: force(pose) on a valid tree returns a pose that passes validate() on
\* the same tree.
C1_ForceConvergence ==
    (last.op = "force" /\ TreeValid(root)) => TreeValidate(root, last.ret.pose)

\* C2: a pose rejected before merge(L) is rejected after it: the poses accepted
\* after a merge are a subset of those accepted before.
C2_MergeMonotone ==
    last.op = "merge" =>
        \A p \in Poses : ~TreeValidate(last.before, p) => ~TreeValidate(root, p)

\* the tree after merging the flat limits a and then b into a new tree
MergedTwo(a, b) == TreeMerge(TreeMerge(NewTree, a).root, b).root

XIntervals(def) == def.bones["x"].intervals
InSome(ivs, v) == \E i \in 1..Len(ivs) : ivs[i][1] <= v /\ v <= ivs[i][2]
\* the integer points that lie in an interval of a and in an interval of b
CommonPoints(a, b) ==
    { q \in -10..40 : InSome(XIntervals(a), q) /\ InSome(XIntervals(b), q) }

\* C3: after merging two option-less limits that constrain the same key with
\* interval sets A and B, validate accepts a value of that key iff it lies in
\* an interval of A and in an interval of B, and force moves an out-of-range
\* value to the nearest point of the intersection.
C3_TwoLimitsIntersect ==
    \A a, b \in FlatXDefs :
        (root = MergedTwo(a, b) /\ last.op \in {"validate", "force"}
            /\ "x" \in DOMAIN last.pose.bones) =>
            LET v == last.pose.bones["x"]
                common == CommonPoints(a, b)
            IN  /\ last.op = "validate" => (last.ret = (v \in common))
                /\ (last.op = "force" /\ common # {} /\ v \notin common) =>
                       LET r == last.ret.pose.bones["x"]
                       IN  /\ last.ret.changed
                           /\ r \in common
                           /\ \A q \in common : Abs(v - r) <= Abs(v - q)
                           /\ last.ret.pose.view = last.pose.view
                           /\ \A n \in DOMAIN last.pose.bones \ {"x"} :
                                  last.ret.pose.bones[n] = last.pose.bones[n]

C3_Witness ==
    /\ root = MergedTwo(Flat(OnlyX(Ivs(IvA)), NoView), Flat(OnlyX(Ivs(IvB)), NoView))
    /\ last.op = "force"
    /\ "x" \in DOMAIN last.pose.bones
    /\ last.pose.bones["x"] = 30
    /\ ~TreeValidate(root, last.pose)
    /\ last.ret.pose.bones["x"] = 10

\* C4: once merge() has made the tree invalid it stays invalid, and every later
\* merge(), whatever limits it is given (including none), returns false.
C4_InvalidIsTerminal ==
    [][root = NullNode =>
          /\ root' = NullNode
          /\ (last'.op = "merge" => last'.ret = FALSE)]_vars

C4_Witness ==
    /\ last.op = "merge"
    /\ last.before = NullNode
    /\ last.limits = NoLimits
    /\ last.ret = FALSE
    /\ root = NullNode

\* C5: on an invalid tree validate returns false for every pose, and force
\* never presents the input pose as an accepted pose (unchanged, changed = false).
C5_InvalidFailsClosed ==
    root = NullNode =>
        /\ last.op = "validate" => last.ret = FALSE
        /\ last.op = "force" => ~(last.ret.pose = last.pose /\ last.ret.changed = FALSE)

\* the lists of limits met on the paths from a node to its leaves
RECURSIVE Paths(_)
Paths(node) ==
    IF ~node.hasChildren THEN { <<node.limit>> }
    ELSE UNION { { <<node.limit>> \o rest : rest \in Paths(node.children[i]) } :
                    i \in 1..Len(node.children) }

\* the value the pose gives to a flat key, for a key the pose sets
PoseSets(pose, key) ==
    IF key = "view" THEN pose.view # NoView
    ELSE \E b \in DOMAIN pose.bones : BoneKey(b) = key
PoseValue(pose, key) ==
    IF key = "view" THEN (IF pose.view = FRONT THEN 0 ELSE 1)
    ELSE pose.bones[KeyBone(key)]

\* C6: validate(pose) on a valid tree is true iff on some path from the root to
\* a leaf, at every node, each key that the node constrains and the pose sets
\* has its value inside one of the node's intervals.
C6_ValidateIsPathSearch ==
    (last.op = "validate" /\ TreeValid(root)) =>
        (last.ret =
            \E path \in Paths(root) :
                \A i \in 1..Len(path) :
                    \A key \in DOMAIN path[i] :
                        PoseSets(last.pose, key) =>
                            InSome(path[i][key], PoseValue(last.pose, key)))

C6_Witness ==
    /\ last.op = "validate"
    /\ TreeValid(root)
    /\ root.hasChildren
    /\ Len(root.children) >= 2
    /\ last.ret = TRUE
    /\ ~TreeNodeValidate(root.children[1], FromPose(last.pose))
    /\ DOMAIN last.pose.bones = {"y"}

\* all nodes of a tree
RECURSIVE Nodes(_)
Nodes(node) ==
    {node} \cup
        (IF ~node.hasChildren THEN {}
         ELSE UNION { Nodes(node.children[i]) : i \in 1..Len(node.children) })

\* the result of forcing data at a node is that of its first branch of minimal
\* total distance
MinimalFirstBranch(node, data) ==
    LET own == TreeLimitForce(node.limit, data)
        n == Len(node.children)
        branch == [i \in 1..n |-> TreeNodeForce(node.children[i], own.data)]
        best == CHOOSE i \in 1..n :
                    /\ \A j \in 1..n : branch[i].diff <= branch[j].diff
                    /\ \A j \in 1..(i - 1) : branch[j].diff > branch[i].diff
        res == TreeNodeForce(node, data)
    IN  /\ res.data = branch[best].data
        /\ res.diff = own.diff + branch[best].diff

\* C7: at a node with several alternative branches force returns the result of
\* the branch of minimal total distance, the first one in declaration order on
\* a tie; changed is true iff the total distance moved is non-zero.
C7_ForceMinimalBranch ==
    (last.op = "force" /\ TreeValid(root)) =>
        LET data == FromPose(last.pose)
        IN  /\ \A node \in Nodes(root) :
                   (node.hasChildren /\ Len(node.children) >= 1) =>
                       MinimalFirstBranch(node, data)
            /\ last.ret.changed = (TreeNodeForce(root, data).diff # 0)

\* a tie between the first two branches of the root at a non-zero distance
C7_Witness ==
    /\ last.op = "force"
    /\ TreeValid(root)
    /\ root.hasChildren
    /\ Len(root.children) >= 2
    /\ LET own == TreeLimitForce(root.limit, FromPose(last.pose))
           b1 == TreeNodeForce(root.children[1], own.data)
           b2 == TreeNodeForce(root.children[2], own.data)
       IN  /\ b1.diff = b2.diff
           /\ b1.diff > 0
           /\ b1.data # b2.data
           /\ FromPose(last.ret.pose) = b1.data
    /\ last.ret.changed

----------------------------------------------------------------------------
(* Claims about DoAppearanceAction and the action context (checked under    *)
(* SpecAction)                                                              *)

\* C8: DoAppearanceAction with dryRun = true changes no appearance, and returns
\* the same accept/reject result as the call with dryRun = false made on the
\* same inputs and the same starting state.
C8_DryRunSameResult ==
    (lastAction.op = "action" /\ lastAction.dryRun) =>
        /\ appearance = lastAction.before
        /\ lastAction.result =
               DoAppearanceAction(lastAction.action, lastAction.context, Assets, FALSE).result

\* a dry run of an action that the real call applies
C8_Witness ==
    /\ lastAction.op = "action"
    /\ lastAction.dryRun
    /\ lastAction.result = TRUE
    /\ DoAppearanceAction(lastAction.action, lastAction.context, Assets, FALSE).characters
           # lastAction.context.characters

\* C9: whenever DoAppearanceAction rejects an action, no appearance has been
\* modified.
C9_RejectChangesNothing ==
    (lastAction.op = "action" /\ ~lastAction.result) => appearance = lastAction.before

\* a real create refused because the item id is already worn
C9_Witness ==
    /\ lastAction.op = "action"
    /\ ~lastAction.dryRun
    /\ ~lastAction.result
    /\ lastAction.action.type = "create"
    /\ lastAction.action.asset \in Assets
    /\ lastAction.action.target \in DOMAIN lastAction.context.characters
    /\ Len(appearance[lastAction.action.target].items) = 1

\* the characters that share a room with char, and char itself, where rooms
\* gives the room of every character
OwnSpaceIn(rooms, char) ==
    { c \in Chars : rooms[c] # NoRoom /\ rooms[c] = rooms[char] } \cup {char}
OwnSpace(char) == OwnSpaceIn(charRoom, char)

----------------------------------------------------------------------------
(* Claims about storage modules and the room inventory (checked under      *)
(* SpecItems)                                                               *)

\* the last operation was a create action into the storage module of an item
CreatedInContainer == lastItem.op = "create" /\ lastItem.path > 0

\* the contents given to setContents by the last create action
GivenContents ==
    Append(lastItem.before[lastItem.path].contents,
           NewItem(lastItem.id, ItemAssetById(lastItem.asset),
                   Bundle(lastItem.id, lastItem.asset, <<>>), FALSE))

DistinctIds(items) == \A i, j \in 1..Len(items) : i # j => items[i].id # items[j].id

\* C11: a storage module with maxCount = N is never truncated by setContents,
\* and a create action into it is rejected with 'tooManyItems' (limit N) when
\* the contents would hold more than N items with distinct ids, and accepted
\* while they hold at most N items of an accepted size: of N+1 creates the
\* first N are accepted and the (N+1)th is rejected.
C11_StorageCapacity ==
    CreatedInContainer =>
        LET config == lastItem.before[lastItem.path].asset.storage
            N == config.maxCount
            fits == \A i \in 1..Len(GivenContents) :
                        SizeOr(GivenContents[i].asset.size, 99)
                            <= SizeOr(config.maxAcceptedSize, 0)
        IN  /\ lastItem.set = GivenContents
            /\ (DistinctIds(GivenContents) /\ Len(GivenContents) > N) =>
                    /\ lastItem.result = TooManyItems(N)
                    /\ inventory = lastItem.before
            /\ (DistinctIds(GivenContents) /\ Len(GivenContents) <= N /\ fits) =>
                    /\ lastItem.result.success
                    /\ inventory[lastItem.path].contents = GivenContents

\* the third create into a module with maxCount 2 is rejected, the module
\* keeps the two items created before
C11_Witness ==
    /\ CreatedInContainer
    /\ itemSteps = 4
    /\ lastItem.before[lastItem.path].asset.storage.maxCount = 2
    /\ Len(GivenContents) = 3
    /\ DistinctIds(GivenContents)
    /\ lastItem.result = TooManyItems(2)
    /\ Len(inventory[lastItem.path].contents) = 2

\* C12: loading the bundle exported from a valid state and exporting again
\* gives the bundle exported first, the contents of nested storage modules
\* included.
C12_RoundTrip ==
    (lastItem.op = "reload" /\ IsValid(lastItem.before)) =>
        /\ lastItem.bundle = ExportToBundle(lastItem.before)
        /\ ExportToBundle(inventory) = lastItem.bundle

\* a state holding a full storage module, one of its items a storage module
\* itself, has been exported and loaded again
C12_Witness ==
    /\ lastItem.op = "reload"
    /\ IsValid(lastItem.before)
    /\ \E k \in 1..Len(lastItem.before) :
        LET contents == lastItem.before[k].contents
        IN  /\ Len(contents) = 2
            /\ \E j \in 1..2 : contents[j].asset.storage # NoStorage
    /\ Len(lastItem.bundle.items) = 2
    /\ ExportToBundle(inventory) = lastItem.bundle

\* the n-th smallest index of a set of indices
NthOf(K, n) == CHOOSE k \in K : Cardinality({ j \in K : j < k }) = n - 1

\* whether entry i is one the claim says is skipped, K being the entries
\* loaded: an unknown asset; in a storage module, over the count limit, over
\* the size limit or not valid; in the room inventory, not valid or with the
\* id of an item loaded before it
SkipStated(bundles, i, K, config) ==
    LET asset == ItemAssetById(bundles[i].asset)
        item == NewItem(bundles[i].id, asset, bundles[i], TRUE)
    IN  \/ bundles[i].asset \notin { a.id : a \in ItemAssets }
        \/ ~ItemValidate(item).success
        \/ /\ config # NoStorage
           /\ \/ Cardinality({ k \in K : k < i }) >= config.maxCount
              \/ SizeOr(asset.size, 99) > SizeOr(config.maxAcceptedSize, 0)
        \/ /\ config = NoStorage
           /\ \E k \in K : k < i /\ bundles[k].id = bundles[i].id

RECURSIVE LoadedAsStated(_, _, _)
\* items are the entries of bundles that are not to be skipped, in the order
\* of the bundle, and so are the contents of each of them
LoadedAsStated(bundles, items, config) ==
    \E K \in SUBSET (1..Len(bundles)) :
        /\ Cardinality(K) = Len(items)
        /\ \A i \in 1..Len(bundles) : i \in K <=> ~SkipStated(bundles, i, K, config)
        /\ \A n \in 1..Len(items) :
            LET b == bundles[NthOf(K, n)]
            IN  /\ items[n].id = b.id
                /\ items[n].asset.id = b.asset
                /\ IF items[n].asset.storage = NoStorage
                   THEN items[n].contents = <<>>
                   ELSE LoadedAsStated(b.contents, items[n].contents,
                                       items[n].asset.storage)

RECURSIVE NoRevisit(_, _)
\* no item of items, and no item inside them, has an id of path or the id of
\* one of its own containers
NoRevisit(items, path) ==
    \A i \in 1..Len(items) :
        /\ items[i].id \notin path
        /\ NoRevisit(items[i].contents, path \cup {items[i].id})

----------------------------------------------------------------------------
(* Claims about Character.save (checked under SpecSave) *)

\* C14: when the database write of save() fails, the character's data and
\* appearance stay as they are, every key that was being saved is back in the
\* modified set and the state is MODIFIED; the next save() writes these keys
\* again, with their current values.
C14_FailedSaveKeepsChange ==
    [][ /\ lastSave'.op = "saveFailed" =>
            /\ charData' = charData
            /\ lastSave'.keys \subseteq modified'
            /\ saveState' = MODIFIED
        /\ (lastSave.op = "saveFailed" /\ lastSave'.op = "save") =>
            /\ lastSave.keys \subseteq lastSave'.keys
            /\ \A k \in lastSave.keys : lastSave'.data[k] = charData[k]
      ]_vars

\* a write has failed while the database still holds the old value of a key
\* that was being saved
C14_Witness ==
    /\ lastSave.op = "saveFailed"
    /\ \E k \in lastSave.keys : database[k] # charData[k] /\ k \in modified
    /\ saveState = MODIFIED

\* C24: under any interleaving of data and appearance changes with save()
\* calls in flight (overlapping, each written or failed), a waiting change is
\* never hidden from save(): whenever the modified set is not empty the state
\* is MODIFIED; and a change made while a save is PENDING is still in the
\* modified set, with the state MODIFIED, after that save is written.
C24_WaitingChangeNotHidden ==
    /\ [](modified # {} => saveState = MODIFIED)
    /\ [][ (lastSave'.op = "saved" /\ modified # {}) =>
                /\ saveState' = MODIFIED
                /\ modified' = modified
          ]_vars

\* a save has been written after a key that it held was changed again
C24_Witness ==
    /\ lastSave.op = "saved"
    /\ lastSave.keys \cap modified # {}
    /\ \E k \in modified : database[k] # charData[k]
    /\ saveState = MODIFIED

----------------------------------------------------------------------------
(* Claims about the occupied slots (checked under SpecWear) *)

RECURSIVE SumOfAmounts(_, _, _)
\* the sum of the amounts by which the items from i on occupy the slot
SumOfAmounts(items, i, slot) ==
    IF i > Len(items) THEN 0
    ELSE (IF slot \in DOMAIN items[i].occupySlots
          THEN AmountOr0(items[i].occupySlots[slot]) ELSE 0)
         + SumOfAmounts(items, i + 1, slot)

\* C16: in every valid state, for every slot, the amounts by which the worn
\* items occupy the slot sum to at most one whole slot.
C16_SlotOccupancy ==
    /\ \A slot \in Slots : SumOfAmounts(worn, 1, slot) <= WholeSlot
    /\ lastWear.op # "none" =>
        (lastWear.valid => \A slot \in Slots :
                                SumOfAmounts(lastWear.state, 1, slot) <= WholeSlot)

\* two items that fill a slot by half each are worn, and a third one on the
\* same slot has been refused
C16_Witness ==
    /\ lastWear.op = "wear"
    /\ ~lastWear.valid
    /\ Len(worn) = 2
    /\ SumOfAmounts(worn, 1, "hand") = WholeSlot
    /\ \A k \in 1..2 : SumOfAmounts(<<worn[k]>>, 1, "hand") = 1
    /\ SumOfAmounts(lastWear.state, 1, "hand") > WholeSlot

----------------------------------------------------------------------------
(* Claims about the order of actions on a space (checked under SpecSpace) *)

\* C17: the actions against one space are applied one after the other: no
\* call waits between its check and its mutation, every action is applied
\* to the very state its check has seen, and what it leaves is what
\* DoAppearanceAction makes of that state in one step.
C17_ActionsDoNotInterleave ==
    /\ waiting = {}
    /\ lastSpace.op = "action" =>
        LET whole == DoAppearanceAction(lastSpace.action,
                        [player |-> lastSpace.player, characters |-> lastSpace.before],
                        Assets, FALSE)
        IN  /\ lastSpace.seen = lastSpace.before
            /\ lastSpace.result = whole.result
            /\ executing = NoCall => space = whole.characters

\* two actions that create the same item have been made: the first was
\* applied, the second was checked on the state the first left and rejected
C17_Witness ==
    /\ begun = 2
    /\ executing = NoCall
    /\ lastSpace.op = "action"
    /\ lastSpace.action.type = "create"
    /\ ~lastSpace.result
    /\ lastSpace.action.target \in SpaceChars
    /\ HasItem(lastSpace.before[lastSpace.action.target], lastSpace.action.itemId)
    /\ Len(space[lastSpace.action.target].items) = 1

----------------------------------------------------------------------------
(* Claims about the rooms of the directory (checked under SpecRoom) *)

\* the last call was one of those said to clean the ban list
BanListCall ==
    \/ lastRoom.op = "update"
    \/ lastRoom.op = "adminAction" /\ lastRoom.action \in {"ban", "promote"}
    \/ lastRoom.op = "removeOwner"

\* C18: after update() setting the admin or ban list, after adminAction 'ban'
\* or 'promote' and after removeOwner(), no owner and no admin of the room is
\* in the room's ban list.
C18_BanListWithoutAdmins ==
    BanListCall =>
        LET room == dirRooms[lastRoom.room]
        IN  \A a \in Accounts : IsAdmin(room, a) => ~Includes(room.banned, a)

\* how often the account is in the list
Occurrences(list, account) == Cardinality({ i \in 1..Len(list) : list[i] = account })

\* C19: removeOwner(accountId) of an owner leaves the account out of the
\* owners and in the admin list exactly once. If no owner is left the room is
\* destroyed at once: it has no characters, every character that was inside
\* has no room, and no shard is assigned. If owners remain, the room, its
\* characters and its shard are kept.
C19_RemoveOwner ==
    (lastRoom.op = "removeOwner"
        /\ IsOwner(lastRoom.before.rooms[lastRoom.room], lastRoom.account)) =>
        LET r == lastRoom.room
            before == lastRoom.before.rooms[r]
            room == dirRooms[r]
        IN  /\ ~IsOwner(room, lastRoom.account)
            /\ Occurrences(room.admin, lastRoom.account) = 1
            /\ room.owners = {} =>
                /\ room.destroyed
                /\ room.characters = {}
                /\ \A c \in before.characters : dirChars[c] = NoRoom
                /\ room.assignedShard = NoShard
            /\ room.owners # {} =>
                /\ ~room.destroyed
                /\ room.characters = before.characters
                /\ \A c \in before.characters : dirChars[c] = r
                /\ room.assignedShard = before.assignedShard
            /\ \A o \in Rooms \ {r} : dirRooms[o] = lastRoom.before.rooms[o]
            /\ \A c \in Chars \ before.characters : dirChars[c] = lastRoom.before.chars[c]

\* the last owner of a room, an admin already, has given up the ownership
\* while two characters were inside: the room is destroyed and empty
C19_Witness ==
    /\ lastRoom.op = "removeOwner"
    /\ LET before == lastRoom.before.rooms[lastRoom.room]
       IN  /\ before.owners = {lastRoom.account}
           /\ Includes(before.admin, lastRoom.account)
           /\ Cardinality(before.characters) >= 2
           /\ before.assignedShard = TheShard
    /\ dirRooms[lastRoom.room].destroyed
    /\ dirRooms[lastRoom.room].characters = {}

\* a character is in a room's character set iff character.room is that room
RoomOfCharacterAgrees ==
    \A r \in Rooms, c \in Chars : c \in dirRooms[r].characters <=> dirChars[c] = r

\* the last call was addCharacter of a character that was in a different room
AddedFromOtherRoom ==
    /\ lastRoom.op = "addCharacter"
    /\ lastRoom.before.chars[lastRoom.character] \notin {NoRoom, lastRoom.room}

\* C25 as stated: after any sequence of addCharacter, removeCharacter,
\* adminAction, update and onDestroy on any rooms, a character is in a room's
\* character set iff character.room is that room; and addCharacter of a
\* character that is in a different room throws without changing either room.
C25_CharacterInOneRoom ==
    /\ RoomOfCharacterAgrees
    /\ AddedFromOtherRoom => (lastRoom.thrown /\ World = lastRoom.before)

\* C25, amended: a character is in a room's character set iff character.room
\* is that room, so it is in at most one room; addCharacter of a character
\* that is in a different room changes neither room, and it throws unless the
\* character's account is banned in the room asked, in which case it returns.
C25_CharacterInOneRoomAmended ==
    /\ RoomOfCharacterAgrees
    /\ \A c \in Chars : Cardinality({ r \in Rooms : c \in dirRooms[r].characters }) <= 1
    /\ AddedFromOtherRoom =>
        /\ World = lastRoom.before
        /\ lastRoom.thrown <=>
                ~IsBanned(lastRoom.before.rooms[lastRoom.room],
                          AccountOf(lastRoom.character))

\* addCharacter has thrown for a character that another room holds, after a
\* call that changed the rooms
C25_Witness ==
    /\ AddedFromOtherRoom
    /\ lastRoom.thrown
    /\ roomSteps = MaxRoomSteps
    /\ \E r \in Rooms \ {lastRoom.room} : lastRoom.character \in dirRooms[r].characters

----------------------------------------------------------------------------
(* Claims about bans (checked under SpecBans) *)

\* the last call was one of those said to clear the room of banned characters
BanCall ==
    \/ lastRoom.op = "adminAction" /\ lastRoom.action = "ban"
    \/ lastRoom.op = "update" /\ "banned" \in DOMAIN lastRoom.changes
    \/ lastRoom.op = "removeCharacter" /\ lastRoom.reason = "ban"

\* the characters inside the room whose account isBanned
BannedInside(room) == { c \in room.characters : IsBanned(room, AccountOf(c)) }

\* C26: after adminAction('ban', targets), after update() with a new ban list
\* and after removeCharacter(c, 'ban') has returned, no character whose
\* account isBanned (in the ban list and neither owner nor admin) remains in
\* the room; and addCharacter refuses a banned account's character.
C26_NoBannedCharacterInside ==
    /\ BanCall => BannedInside(dirRooms[lastRoom.room]) = {}
    /\ (lastRoom.op = "addCharacter"
            /\ lastRoom.before.chars[lastRoom.character] # lastRoom.room
            /\ IsBanned(lastRoom.before.rooms[lastRoom.room],
                        AccountOf(lastRoom.character))) =>
        lastRoom.character \notin dirRooms[lastRoom.room].characters

----------------------------------------------------------------------------
(* Claims about the connection to the Directory (checked under SpecConn) *)

\* C20: once the connector's state is DISCONNECTED it never changes, whatever
\* call, socket event or registration step follows; and connect() throws
\* whenever the state is not NONE.
C20_DisconnectedIsFinal ==
    [][ /\ connState = DISCONNECTED => connState' = DISCONNECTED
        /\ lastConn'.op = "connect" => (lastConn'.thrown <=> connState # NONE)
      ]_vars

----------------------------------------------------------------------------
(* Claims about the clock of a directory room (checked under SpecClock) *)

\* the list of times rises strictly
StrictlyRising(times) == \A i, j \in 1..Len(times) : i < j => times[i] < times[j]

\* C21: the message times of a room are unique: every message passed to
\* sendMessage gets a directoryTime strictly greater than that of every
\* message sent earlier in the room, also when several messages are sent in
\* one call, when the clock stands still or when it has gone backwards.
C21_MessageTimesRise ==
    /\ StrictlyRising(pendingMessages)
    /\ \A i \in 1..Len(pendingMessages) : pendingMessages[i] <= lastMessageTime
    /\ lastClock.op = "sendMessage" =>
        /\ Len(lastClock.sent) = Len(lastClock.reads)
        /\ pendingMessages = lastClock.before \o lastClock.sent

\* two messages were sent in one call, after an earlier message, while the
\* clock stood still and then went back
C21_Witness ==
    /\ lastClock.op = "sendMessage"
    /\ Len(lastClock.before) >= 1
    /\ Len(lastClock.reads) = 2
    /\ lastClock.reads[1] = lastClock.before[Len(lastClock.before)]
    /\ lastClock.reads[2] < lastClock.reads[1]

\* C23: touch() sets the last-activity timestamp to the current time: right
\* after touch() returns, lastActivity is the clock value of the call,
\* whatever its previous value was.
C23_TouchSetsLastActivity ==
    lastClock.op = "touch" => lastActivity = lastClock.now

\* touch() was called when the clock showed less than the timestamp held
C23_Witness ==
    /\ lastClock.op = "touch"
    /\ lastClock.now < lastClock.previous
    /\ lastActivity = lastClock.now

----------------------------------------------------------------------------
(* Claims about entering a room (checked under SpecEnter) *)

\* the last call asked for a character outside the room whose account is in
\* the ban list and is neither owner nor admin
BannedAtTheDoor ==
    /\ lastRoom.op = "checkAllowEnter"
    /\ LET room == lastRoom.before.rooms[lastRoom.room]
           account == AccountOf(lastRoom.character)
       IN  /\ lastRoom.before.chars[lastRoom.character] # lastRoom.room
           /\ Includes(room.banned, account)
           /\ ~IsAdmin(room, account)

\* C22: a banned account cannot enter the room: for a character that is not
\* already in the room and whose account is in the ban list and is neither
\* owner nor admin, checkAllowEnter never returns 'ok', whatever password is
\* given, whether the room is public or not, and whether or not the character
\* limit is ignored.
C22_BannedCannotEnter ==
    BannedAtTheDoor => lastRoom.result # "ok"

\* a banned character gave the right password of a public room, with the
\* character limit ignored, and was refused
C22_Witness ==
    /\ BannedAtTheDoor
    /\ LET room == lastRoom.before.rooms[lastRoom.room]
       IN  /\ room.public
           /\ room.password # NoPassword
           /\ lastRoom.password = room.password
           /\ Cardinality(room.characters) >= room.maxUsers
    /\ lastRoom.ignoreCharacterLimit
    /\ lastRoom.result = "noAccess"

----------------------------------------------------------------------------
(* Claims about the invalidation of a character (checked under SpecLife) *)

\* C27: invalidation of a shard Character is final: once invalidated it keeps
\* its first reason for ever and has no connection and no pending timeout
\* timer; a timeout timer is pending only while the character is valid and
\* has no connection, so handleTimeout never runs on an invalid character (its
\* AssertNever is not reached); and 'characterDisconnect' is sent to the
\* Directory at most once per character and never for the reason 'remove'.
C27_InvalidationIsFinal ==
    /\ [](invalid # NoReason => (connection = NoConnection /\ ~timeout))
    /\ [](timeout => (invalid = NoReason /\ connection = NoConnection))
    /\ [](lastLife.op = "handleTimeout" => ~lastLife.assertNever)
    /\ [](/\ Len(directoryMessages) <= 1
          /\ \A i \in 1..Len(directoryMessages) :
                directoryMessages[i] # "remove" /\ directoryMessages[i] = invalid)
    /\ [][invalid # NoReason => invalid' = invalid]_vars

\* a character that timed out was removed afterwards, and a connection was
\* then offered to it: the reason is still 'timeout', sent once
C27_Witness ==
    /\ invalid = "timeout"
    /\ directoryMessages = <<"timeout">>
    /\ lastLife.op = "setConnection"
    /\ lastLife.assertNever
    /\ lastSave.op = "onRemove"

====
